---- MODULE Spec2Model ----
(***************************************************************************)
(* A model of flake-review: the differ (flake.py), the build orchestrator  *)
(* (build.py), the report model and its merge (report.py) and the review   *)
(* drivers (cli.py).  Each component has its own specification over the    *)
(* shared variables; the variables of the other components stay idle.      *)
(***************************************************************************)
EXTENDS Integers, Sequences, FiniteSets, TLC

VARIABLES
    nixWorld,    \* the external evaluator: flake -> attribute -> what `nix eval` answers
    fo,          \* the FlakeOutputs objects: flake -> [outputs, derivations]
    evalCalls,   \* flake -> [listing, drv]: evaluator invocations made so far
    lastCall,    \* the parameters and the answer of the last differ call
    answered,    \* flake -> the get_derivations parameters its object has answered
    nCalls,      \* calls made on the FlakeOutputs objects so far
    diffPc       \* position of the differ's caller

VARIABLES
    changes,     \* build_changes: the ChangeSet it was given
    max_workers, \* build_changes: its max_workers argument
    bpc,         \* build_changes: position of the main thread
    futures,     \* the futures submitted so far, in submission order
    workQ,       \* ThreadPoolExecutor: the work items no worker has taken yet
    running,     \* the futures whose build_derivation a worker is executing
    readyQ,      \* the finished futures as_completed has yet to yield; before it
                 \* starts, the finished futures in the order they finished
    results,     \* build_changes: its `results` list
    progress,    \* the progress lines printed so far
    builderRuns  \* the invocations of the external builder, in start order

diffVars == <<nixWorld, fo, evalCalls, lastCall, answered, nCalls, diffPc>>

buildVars == <<changes, max_workers, bpc, futures, workQ, running, readyQ, results,
               progress, builderRuns>>

VARIABLES
    rpIn,        \* report: the comparison, the build results, the systems and the diff tool
    rpDoc,       \* report: the dict generate_json_report returned, if it ran
    rpFile,      \* report: the report file written from rpDoc, if any
    rpLoaded,    \* report: what load_json_report read back from rpFile, if it ran
    rpTexts,     \* report: renderer -> the texts it has produced, in order
    diffCalls    \* report: the nix-diff invocations made so far, in order

VARIABLES
    report_files, \* merge-reports: the files named on the command line, in order
    mergeArgs,    \* merge-reports: the other command-line arguments and the forge
    mergeOut      \* merge-reports: what the command did, once it has run

VARIABLES
    rvIn,        \* review: the driver, its arguments, the comparison and the environment
    rvOut,       \* review: what _review_changes did, once it has run
    wt           \* the git worktrees of a driver: the with-statements and the directories

reportVars == <<rpIn, rpDoc, rpFile, rpLoaded, rpTexts, diffCalls>>

mergeVars == <<report_files, mergeArgs, mergeOut>>

reviewVars == <<rvIn, rvOut, wt>>

restVars == <<reportVars, mergeVars, reviewVars>>

vars == <<diffVars, buildVars, restVars>>

(***************************************************************************)
(* Python values                                                           *)
(***************************************************************************)
\* Optional values: None is the empty tuple, a present value v is <<v>>.
None == <<>>
Some(v) == <<v>>

\* The one element of a one-element set (binds a value that is computed once).
TheOne(S) == CHOOSE x \in S : TRUE

RECURSIVE SeqConcat(_)
\* The concatenation of a sequence of sequences.
SeqConcat(ss) == IF ss = <<>> THEN <<>> ELSE Head(ss) \o SeqConcat(Tail(ss))

SeqRange(s) == {s[i] : i \in DOMAIN s}

\* A dict is the sequence of its <<key, value>> items in insertion order.
DictKeys(d) == {d[i][1] : i \in DOMAIN d}
DictGet(d, k) == d[CHOOSE i \in DOMAIN d : d[i][1] = k][2]
DictKeySeq(d) == [i \in DOMAIN d |-> d[i][1]]
DictValueSeq(d) == [i \in DOMAIN d |-> d[i][2]]
\* d[k] = v: an existing key keeps its place, a new key goes last.
DictSet(d, k, v) ==
    IF k \in DictKeys(d)
    THEN [i \in DOMAIN d |-> IF d[i][1] = k THEN <<k, v>> ELSE d[i]]
    ELSE Append(d, <<k, v>>)

RECURSIVE DictFromItems(_, _)
DictFromItems(d, items) ==
    IF items = <<>> THEN d
    ELSE DictFromItems(DictSet(d, Head(items)[1], Head(items)[2]), Tail(items))

\* All orders in which the elements of a set can be listed.
Perms(S) == {p \in [1..Cardinality(S) -> S] : SeqRange(p) = S}

(***************************************************************************)
(* The evaluator's universe                                                *)
(***************************************************************************)
Flakes == {"base", "head"}

\* In the order `nix eval --json` prints attribute names (sorted).
SystemsSorted == <<"aarch64-darwin", "x86_64-linux">>
NamesSorted == <<"default", "hello">>
OutputTypes == {"packages", "devShells"}
Systems == SeqRange(SystemsSorted)
Names == SeqRange(NamesSorted)

Attr(output_type, system, name) ==
    [output_type |-> output_type, system |-> system, name |-> name]

\* The attributes a flake of the model may define.
Attrs ==
    {Attr("packages", "x86_64-linux", "default"), Attr("packages", "x86_64-linux", "hello"),
     Attr("packages", "aarch64-darwin", "default"), Attr("devShells", "x86_64-linux", "default")}

\* What `nix eval <flake>#<attr>.drvPath --raw` does for an attribute: the
\* attribute is not in the flake ("absent"), the command exits non-zero
\* ("nonzero"), or it exits 0 and prints the given stdout.
DrvPaths == {"/nix/store/1-foo.drv", "/nix/store/2-foo.drv"}
DrvStdout == {""} \cup {p \o "\n" : p \in DrvPaths}
DrvAnswers == {"absent", "nonzero"} \cup DrvStdout

\* str.strip() on the texts the evaluator can print.
Strip(s) ==
    IF s \in {"", "\n", " "} THEN ""
    ELSE IF \E p \in DrvPaths : s = p \o "\n" THEN CHOOSE p \in DrvPaths : s = p \o "\n"
    ELSE s

\* The most attributes that exist in either flake.
MaxAttrs == 2

\* Every pair of evaluators (base, head) in which at most MaxAttrs attributes
\* exist in either flake, all of the output types in `types` and all in flakes
\* of `flakes`.
WorldsOver(types, flakes, answers) ==
    UNION {{[f \in Flakes |-> [a \in Attrs |->
                IF a \in P /\ f \in flakes THEN g[f][a] ELSE "absent"]] :
            g \in [Flakes -> [P -> answers]]} :
           P \in {S \in SUBSET {a \in Attrs : a.output_type \in types} :
                     Cardinality(S) <= MaxAttrs}}

Worlds(types, flakes) == WorldsOver(types, flakes, DrvAnswers)

(***************************************************************************)
(* flake.py: FlakeOutputs                                                  *)
(***************************************************************************)
\* f"{output_type}.{system}.{'.'.join(path)}" for the one-element path [name].
AttrPath(output_type, system, name) == output_type \o "." \o system \o "." \o name

DerivationInfo(attr_path, drv_path, output_type, system, name) ==
    [attr_path |-> attr_path, drv_path |-> drv_path, output_type |-> output_type,
     system |-> system, name |-> name]

\* FlakeOutputs.__init__
NewFlakeOutputs == [outputs |-> None, derivations |-> None]

\* How the listing of an output type goes wrong in a world, if it does: the
\* command exits non-zero after it has printed ("nonzero"), prints nothing
\* ("empty"), prints a text cut short, which is no JSON ("malformed"), or cannot
\* be run, so that run_command raises ("raises").
ListingFaults == {"nonzero", "empty", "malformed", "raises"}
FaultKey(output_type) == Attr(output_type, "", "")
ListingFault(world, f, output_type) ==
    IF FaultKey(output_type) \in DOMAIN world[f] THEN world[f][FaultKey(output_type)]
    ELSE "none"

\* `nix eval <flake>#<output_type> --json --apply ...`: the systems of the
\* output type with the names under each, both in sorted order; a non-zero exit
\* when the flake has no such output.  `raised` is run_command raising, and
\* `json` says whether json.loads accepts the stdout.
NixEvalListing(world, f, output_type) ==
    LET has(s, n) == /\ Attr(output_type, s, n) \in Attrs
                     /\ world[f][Attr(output_type, s, n)] # "absent"
        names(s) == SelectSeq(NamesSorted, LAMBDA n : has(s, n))
        syss == SelectSeq(SystemsSorted, LAMBDA s : names(s) # <<>>)
        listing == [i \in DOMAIN syss |-> <<syss[i], names(syss[i])>>]
        fault == ListingFault(world, f, output_type)
    IN  IF fault = "raises"
        THEN [raised |-> TRUE, returncode |-> 0, stdout |-> <<>>, json |-> FALSE]
        ELSE IF fault = "nonzero"
        THEN [raised |-> FALSE, returncode |-> 1, stdout |-> listing, json |-> TRUE]
        ELSE IF fault = "empty"
        THEN [raised |-> FALSE, returncode |-> 0, stdout |-> <<>>, json |-> FALSE]
        ELSE IF fault = "malformed"
        THEN [raised |-> FALSE, returncode |-> 0, stdout |-> listing, json |-> FALSE]
        ELSE IF syss = <<>>
        THEN [raised |-> FALSE, returncode |-> 1, stdout |-> <<>>, json |-> FALSE]
        ELSE [raised |-> FALSE, returncode |-> 0, stdout |-> listing, json |-> TRUE]

RECURSIVE RawOutputsLoop_ExitIgnored(_, _, _, _)
\* The loop with the return code of the listing not looked at.
RawOutputsLoop_ExitIgnored(world, f, output_types, outputs) ==
    IF output_types = <<>> THEN outputs
    ELSE LET t == Head(output_types)
             result == NixEvalListing(world, f, t)
             next == IF ~result.raised /\ result.stdout # <<>> /\ result.json
                     THEN DictSet(outputs, t, result.stdout)
                     ELSE outputs
         IN  RawOutputsLoop_ExitIgnored(world, f, Tail(output_types), next)

RECURSIVE RawOutputsLoop(_, _, _, _)
\* The loop of _get_raw_outputs over output_types, filling `outputs`: a kind
\* whose listing raises, in run_command or in json.loads, is passed over by the
\* `except Exception: continue`.
RawOutputsLoop(world, f, output_types, outputs) ==
    IF output_types = <<>> THEN outputs
    ELSE LET t == Head(output_types)
             result == NixEvalListing(world, f, t)
             next == IF result.raised THEN outputs
                     ELSE IF result.returncode = 0 /\ result.stdout # <<>>
                     THEN IF result.json THEN DictSet(outputs, t, result.stdout)
                          ELSE outputs
                     ELSE outputs
         IN  RawOutputsLoop(world, f, Tail(output_types), next)

\* FlakeOutputs._get_raw_outputs: [ret, self, listingCalls]
GetRawOutputs(world, f, self, output_types) ==
    IF self.outputs # None
    THEN [ret |-> self.outputs[1], self |-> self, listingCalls |-> 0]
    ELSE LET ots == IF output_types = None THEN <<"packages">> ELSE output_types[1]
             outputs == RawOutputsLoop(world, f, ots, <<>>)
         IN  [ret |-> outputs,
              self |-> [self EXCEPT !.outputs = Some(outputs)],
              listingCalls |-> Len(ots)]

\* FlakeOutputs._traverse_outputs: the (name, attr_path) pairs of one system.
TraverseOutputs(outputs, output_type, system) ==
    IF output_type \in DictKeys(outputs) /\ system \in DictKeys(DictGet(outputs, output_type))
    THEN LET names == DictGet(DictGet(outputs, output_type), system)
         IN  [i \in DOMAIN names |-> <<names[i], AttrPath(output_type, system, names[i])>>]
    ELSE <<>>

\* FlakeOutputs._get_derivation_path: None when the command exits non-zero or
\* run_command raises ("raises"), else the stripped stdout.
GetDerivationPath(world, f, output_type, system, name) ==
    LET answer == world[f][Attr(output_type, system, name)]
    IN  IF answer \in {"absent", "nonzero", "raises"} THEN None ELSE Some(Strip(answer))

\* The candidates when package_filter is not looked at.
Candidates_AnyName(raw, output_types, systems, package_filter) ==
    SeqConcat([i \in DOMAIN output_types |->
        IF output_types[i] \notin DictKeys(raw) THEN <<>>
        ELSE SeqConcat([j \in DOMAIN systems |->
            IF systems[j] \notin DictKeys(DictGet(raw, output_types[i])) THEN <<>>
            ELSE LET attr_list == TraverseOutputs(raw, output_types[i], systems[j])
                 IN  [k \in DOMAIN attr_list |->
                         [output_type |-> output_types[i], system |-> systems[j],
                          name |-> attr_list[k][1], attr_path |-> attr_list[k][2]]]])])

\* The candidates get_derivations visits, in loop order: output types, then
\* systems, then the names of _traverse_outputs, less those package_filter drops.
Candidates(raw, output_types, systems, package_filter) ==
    SeqConcat([i \in DOMAIN output_types |->
        IF output_types[i] \notin DictKeys(raw) THEN <<>>
        ELSE SeqConcat([j \in DOMAIN systems |->
            IF systems[j] \notin DictKeys(DictGet(raw, output_types[i])) THEN <<>>
            ELSE LET attr_list == TraverseOutputs(raw, output_types[i], systems[j])
                     kept == SelectSeq(attr_list, LAMBDA na :
                                 package_filter = None \/ na[1] \in SeqRange(package_filter[1]))
                 IN  [k \in DOMAIN kept |->
                         [output_type |-> output_types[i], system |-> systems[j],
                          name |-> kept[k][1], attr_path |-> kept[k][2]]]])])

\* The DerivationInfo of each candidate whose drvPath is not None.
Resolved_EmptyKept(world, f, cands) ==
    LET drv(c) == GetDerivationPath(world, f, c.output_type, c.system, c.name)
        ok == SelectSeq(cands, LAMBDA c : drv(c) # None)
    IN  [i \in DOMAIN ok |->
            DerivationInfo(ok[i].attr_path, drv(ok[i])[1], ok[i].output_type,
                           ok[i].system, ok[i].name)]

\* The DerivationInfo of each candidate whose drvPath resolves to a truthy text.
Resolved(world, f, cands) ==
    LET drv(c) == GetDerivationPath(world, f, c.output_type, c.system, c.name)
        ok == SelectSeq(cands, LAMBDA c : drv(c) # None /\ drv(c)[1] # "")
    IN  [i \in DOMAIN ok |->
            DerivationInfo(ok[i].attr_path, drv(ok[i])[1], ok[i].output_type,
                           ok[i].system, ok[i].name)]

\* Line 172: whether the answer is stored in self._derivations. `systems` is the
\* local variable, which line 141 has already rebound to a list.
StoresDerivations(output_types, systemsLocal, package_filter) ==
    /\ output_types = <<"packages">>
    /\ systemsLocal = None
    /\ package_filter = None

\* The systems get_derivations loops over: the given list, or list(systems_set).
SystemsLocal(raw, output_types, systems, setOrder) ==
    IF systems = None
    THEN LET systems_set == UNION {DictKeys(DictGet(raw, t)) :
                                      t \in SeqRange(output_types) \cap DictKeys(raw)}
         IN  Some(SelectSeq(setOrder, LAMBDA s : s \in systems_set))
    ELSE systems

\* Lines 131-175 of get_derivations, after the early return.
GetDerivationsBody(world, f, self, ots, systems, package_filter, setOrder) ==
    TheOne(UNION {UNION {
        {[ret |-> derivations,
          self |-> IF StoresDerivations(ots, systemsLocal, package_filter)
                   THEN [rawCall.self EXCEPT !.derivations = Some(derivations)]
                   ELSE rawCall.self,
          listingCalls |-> rawCall.listingCalls,
          drvCalls |-> Len(cands)] :
         derivations \in {Resolved(world, f, cands)}} :
        cands \in {Candidates(rawCall.ret, ots, systemsLocal[1], package_filter)}} :
        rawCall \in {GetRawOutputs(world, f, self, Some(ots))},
        systemsLocal \in {SystemsLocal(GetRawOutputs(world, f, self, Some(ots)).ret,
                                       ots, systems, setOrder)}})

\* FlakeOutputs.get_derivations: [ret, self, listingCalls, drvCalls].  setOrder
\* is the order in which list(systems_set) yields the systems of a set.
GetDerivations(world, f, self, output_types, systems, package_filter, setOrder) ==
    IF /\ self.derivations # None
       /\ output_types = None
       /\ systems = None
       /\ package_filter = None
    THEN [ret |-> self.derivations[1], self |-> self, listingCalls |-> 0, drvCalls |-> 0]
    ELSE GetDerivationsBody(world, f, self,
                            IF output_types = None THEN <<"packages">> ELSE output_types[1],
                            systems, package_filter, setOrder)

(***************************************************************************)
(* flake.py: compare_outputs                                               *)
(***************************************************************************)
ChangeSet(added, removed, modified) ==
    [added |-> added, removed |-> removed, modified |-> modified]

\* {drv.attr_path: drv for drv in derivations}
DrvMap(derivations) ==
    DictFromItems(<<>>, [i \in DOMAIN derivations |-> <<derivations[i].attr_path, derivations[i]>>])

\* A comparison with the test of line 226 inverted.
IsModified_Inverted(base_drv, target_drv) == base_drv.drv_path = target_drv.drv_path

\* The `elif` of the first loop: the path is in both maps and its drv_path differs.
IsModified(base_drv, target_drv) == base_drv.drv_path # target_drv.drv_path

RECURSIVE Reversed(_)
\* The sequence read from its last element to its first.
Reversed(s) == IF s = <<>> THEN <<>> ELSE Append(Reversed(Tail(s)), Head(s))

\* Lines 216-233 with the second loop walking base_map from its last item.
CompareDerivations_RemovedReversed(base_derivations, target_derivations) ==
    LET base_map == DrvMap(base_derivations)
        target_map == DrvMap(target_derivations)
        target_items == DictValueSeq(target_map)
        base_items == Reversed(DictValueSeq(base_map))
        addedSeq == SelectSeq(target_items, LAMBDA d : d.attr_path \notin DictKeys(base_map))
        modSeq == SelectSeq(target_items, LAMBDA d :
                      /\ d.attr_path \in DictKeys(base_map)
                      /\ IsModified(DictGet(base_map, d.attr_path), d))
        removedSeq == SelectSeq(base_items, LAMBDA d : d.attr_path \notin DictKeys(target_map))
    IN  [added |-> addedSeq, removed |-> removedSeq,
         modified |-> [i \in DOMAIN modSeq |->
                          <<DictGet(base_map, modSeq[i].attr_path), modSeq[i]>>]]

\* Lines 216-233: the three lists from the two lists of derivations.
CompareDerivations(base_derivations, target_derivations) ==
    LET base_map == DrvMap(base_derivations)
        target_map == DrvMap(target_derivations)
        target_items == DictValueSeq(target_map)
        base_items == DictValueSeq(base_map)
        addedSeq == SelectSeq(target_items, LAMBDA d : d.attr_path \notin DictKeys(base_map))
        modSeq == SelectSeq(target_items, LAMBDA d :
                      /\ d.attr_path \in DictKeys(base_map)
                      /\ IsModified(DictGet(base_map, d.attr_path), d))
        removedSeq == SelectSeq(base_items, LAMBDA d : d.attr_path \notin DictKeys(target_map))
    IN  ChangeSet(addedSeq, removedSeq,
                  [i \in DOMAIN modSeq |-> <<DictGet(base_map, modSeq[i].attr_path), modSeq[i]>>])

\* compare_outputs(base, target, ...) on the FlakeOutputs objects of flakes b and
\* t (the same object when b = t): the two get_derivations calls in order, the
\* second on the object as the first left it, then lines 216-233.
CompareOutputs(world, objs, b, t, output_types, systems, package_filter, setOrder) ==
    TheOne(UNION {
        {[changes |-> CompareDerivations(r1.ret, r2.ret),
          base_derivations |-> r1.ret, target_derivations |-> r2.ret,
          fo |-> [[objs EXCEPT ![b] = r1.self] EXCEPT ![t] = r2.self],
          listingCalls |-> [f \in Flakes |-> (IF f = b THEN r1.listingCalls ELSE 0)
                                             + (IF f = t THEN r2.listingCalls ELSE 0)],
          drvCalls |-> [f \in Flakes |-> (IF f = b THEN r1.drvCalls ELSE 0)
                                         + (IF f = t THEN r2.drvCalls ELSE 0)]] :
         r2 \in {GetDerivations(world, t, [objs EXCEPT ![b] = r1.self][t], output_types,
                                systems, package_filter, setOrder)}} :
        r1 \in {GetDerivations(world, b, objs[b], output_types, systems, package_filter,
                               setOrder)}})

(***************************************************************************)
(* Components at rest: the values a component's variables keep in the      *)
(* specifications of the other components                                  *)
(***************************************************************************)
DiffIdle ==
    /\ nixWorld = <<>>
    /\ fo = <<>>
    /\ evalCalls = <<>>
    /\ lastCall = <<>>
    /\ answered = <<>>
    /\ nCalls = 0
    /\ diffPc = "idle"

BuildIdle ==
    /\ changes = ChangeSet(<<>>, <<>>, <<>>)
    /\ max_workers = 0
    /\ bpc = "idle"
    /\ futures = <<>>
    /\ workQ = <<>>
    /\ running = {}
    /\ readyQ = <<>>
    /\ results = <<>>
    /\ progress = <<>>
    /\ builderRuns = <<>>

ReportIdle ==
    /\ rpIn = <<>>
    /\ rpDoc = None
    /\ rpFile = None
    /\ rpLoaded = None
    /\ rpTexts = <<>>
    /\ diffCalls = <<>>

MergeIdle ==
    /\ report_files = <<>>
    /\ mergeArgs = <<>>
    /\ mergeOut = None

ReviewIdle ==
    /\ rvIn = <<>>
    /\ rvOut = None
    /\ wt = <<>>

RestIdle == ReportIdle /\ MergeIdle /\ ReviewIdle

(***************************************************************************)
(* The differ's callers                                                    *)
(***************************************************************************)
\* The arguments the callers pass.  cli.py passes output_types=["packages"],
\* the systems of --systems (split at commas, so possibly repeated or not in
\* the flake) and the names of --package.
OutputTypesArgs == {None, Some(<<"packages">>), Some(<<"devShells">>)}
SystemsArgs ==
    {None, Some(<<"x86_64-linux">>), Some(<<"x86_64-linux", "aarch64-darwin", "x86_64-linux">>),
     Some(<<"riscv64-linux">>)}
PackageFilterArgs == {None, Some(<<"hello">>)}
SetOrders == Perms(Systems)

NoCall ==
    [op |-> "none", base |-> "base", target |-> "base", output_types |-> None,
     systems |-> None, package_filter |-> None, setOrder |-> SystemsSorted,
     ret |-> <<>>, changes |-> ChangeSet(<<>>, <<>>, <<>>), repeated |-> FALSE,
     listingCalls |-> [f \in Flakes |-> 0], drvCalls |-> [f \in Flakes |-> 0]]

\* The filter parameters of a get_derivations call.
Params(output_types, systems, package_filter) ==
    [output_types |-> output_types, systems |-> systems, package_filter |-> package_filter]

\* list(set) is only run when systems is None.
OrdersFor(systems) == IF systems = None THEN SetOrders ELSE {SystemsSorted}

InitDiff ==
    /\ RestIdle
    /\ nixWorld \in Worlds({"packages"}, Flakes)
    /\ fo = [f \in Flakes |-> NewFlakeOutputs]
    /\ evalCalls = [f \in Flakes |-> [listing |-> 0, drv |-> 0]]
    /\ lastCall = NoCall
    /\ answered = [f \in Flakes |-> {}]
    /\ nCalls = 0
    /\ diffPc = "start"
    /\ BuildIdle

\* A caller runs compare_outputs(base, target, ...) once on fresh objects, with
\* the two flakes taken from bts and the filters from systemsArgs and
\* packageFilterArgs.
CompareStepOver(bts, outputTypesArgs, systemsArgs, packageFilterArgs) ==
    /\ diffPc = "start"
    /\ \E bt \in bts, systems \in systemsArgs, package_filter \in packageFilterArgs :
       \E output_types \in outputTypesArgs :
       \E setOrder \in OrdersFor(systems) :
       \E r \in {CompareOutputs(nixWorld, fo, bt[1], bt[2], output_types,
                                  systems, package_filter, setOrder)} :
              /\ fo' = r.fo
              /\ evalCalls' = [f \in Flakes |->
                                  [listing |-> evalCalls[f].listing + r.listingCalls[f],
                                   drv |-> evalCalls[f].drv + r.drvCalls[f]]]
              /\ lastCall' = [op |-> "compare", base |-> bt[1], target |-> bt[2],
                              output_types |-> output_types, systems |-> systems,
                              package_filter |-> package_filter, setOrder |-> setOrder,
                              ret |-> <<>>, changes |-> r.changes, repeated |-> FALSE,
                              listingCalls |-> r.listingCalls, drvCalls |-> r.drvCalls]
              /\ answered' = [f \in Flakes |->
                                 IF f \in {bt[1], bt[2]}
                                 THEN answered[f] \cup {Params(output_types, systems,
                                                               package_filter)}
                                 ELSE answered[f]]
    /\ diffPc' = "compared"
    /\ nCalls' = nCalls + 1
    /\ UNCHANGED <<nixWorld, buildVars, restVars>>

\* The callers of cli.py pass output_types=["packages"].
CompareStep(bts, systemsArgs, packageFilterArgs) ==
    CompareStepOver(bts, {Some(<<"packages">>)}, systemsArgs, packageFilterArgs)

DoCompare ==
    CompareStep({<<"base", "head">>, <<"head", "head">>}, SystemsArgs, PackageFilterArgs)

NextDiff == DoCompare

SpecDiff == InitDiff /\ [][NextDiff]_vars

(***************************************************************************)
(* What the differ is to compute, read off the evaluator                   *)
(***************************************************************************)
\* Attribute a is a unit of flake f's snapshot under the filters of call c: the
\* flake lists it, its kind, system and leaf name are asked for, and its drvPath
\* resolves to a non-empty text.
InSnapshot(world, f, a, c) ==
    /\ world[f][a] \in DrvStdout
    /\ Strip(world[f][a]) # ""
    /\ a.output_type \in SeqRange(IF c.output_types = None THEN <<"packages">>
                                  ELSE c.output_types[1])
    /\ c.systems # None => a.system \in SeqRange(c.systems[1])
    /\ c.package_filter # None => a.name \in SeqRange(c.package_filter[1])

UnitOf(world, f, a) ==
    DerivationInfo(AttrPath(a.output_type, a.system, a.name), Strip(world[f][a]),
                   a.output_type, a.system, a.name)

\* How often a value occurs in a sequence.
Occurrences(seq, x) == Cardinality({i \in DOMAIN seq : seq[i] = x})

AttrPathsOf(seq) == {seq[i].attr_path : i \in DOMAIN seq}
NewPathsOf(modified) == {modified[i][2].attr_path : i \in DOMAIN modified}

\* C1: compare_outputs classifies every attribute path of the two filtered
\* snapshots exactly.  A path only in the target snapshot is in `added` once (as
\* the target unit) and nowhere else; a path only in the base snapshot is in
\* `removed` once and nowhere else; a path in both with different drv_path is in
\* `modified` once, as the pair (base unit, target unit), and nowhere else; a
\* path in both with equal drv_path, or in neither, is in no list; the lists hold
\* nothing else; and compare_outputs(A, A) yields three empty lists.
C1_CompareClassifiesExactly ==
    lastCall.op = "compare" =>
        LET c == lastCall.changes
            inB(a) == InSnapshot(nixWorld, lastCall.base, a, lastCall)
            inT(a) == InSnapshot(nixWorld, lastCall.target, a, lastCall)
            b(a) == UnitOf(nixWorld, lastCall.base, a)
            t(a) == UnitOf(nixWorld, lastCall.target, a)
            p(a) == AttrPath(a.output_type, a.system, a.name)
            onlyT == {a \in Attrs : inT(a) /\ ~inB(a)}
            onlyB == {a \in Attrs : inB(a) /\ ~inT(a)}
            differ == {a \in Attrs : inB(a) /\ inT(a) /\ b(a).drv_path # t(a).drv_path}
        IN  /\ \A a \in onlyT :
                /\ Occurrences(c.added, t(a)) = 1
                /\ p(a) \notin AttrPathsOf(c.removed) \cup NewPathsOf(c.modified)
            /\ \A a \in onlyB :
                /\ Occurrences(c.removed, b(a)) = 1
                /\ p(a) \notin AttrPathsOf(c.added) \cup NewPathsOf(c.modified)
            /\ \A a \in differ :
                /\ Occurrences(c.modified, <<b(a), t(a)>>) = 1
                /\ p(a) \notin AttrPathsOf(c.added) \cup AttrPathsOf(c.removed)
            /\ Len(c.added) = Cardinality(onlyT)
            /\ Len(c.removed) = Cardinality(onlyB)
            /\ Len(c.modified) = Cardinality(differ)
            /\ lastCall.base = lastCall.target =>
                   c = ChangeSet(<<>>, <<>>, <<>>)

\* compare_outputs was run with a system named twice, and found one unit added
\* and one modified.
C1_Witness ==
    /\ lastCall.op = "compare"
    /\ lastCall.base # lastCall.target
    /\ lastCall.systems = Some(<<"x86_64-linux", "aarch64-darwin", "x86_64-linux">>)
    /\ Len(lastCall.changes.added) = 1
    /\ Len(lastCall.changes.modified) = 1

\* compare_outputs(A, A) was run on a flake that has units.
C1_WitnessSame ==
    /\ lastCall.op = "compare"
    /\ lastCall.base = lastCall.target
    /\ \E a \in Attrs : InSnapshot(nixWorld, lastCall.base, a, lastCall)

(***************************************************************************)
(* The order of the three lists                                            *)
(***************************************************************************)
\* One process compares base with head, with all systems found or with a list
\* of systems that names one twice.
DoCompareOnce ==
    CompareStep({<<"base", "head">>},
                {None, Some(<<"x86_64-linux", "aarch64-darwin", "x86_64-linux">>)},
                PackageFilterArgs)

NextOrder == DoCompareOnce

\* The evaluators that resolve every attribute they list to a store path.  They
\* give every pair of snapshots the others give.
ResolvingWorlds == WorldsOver({"packages"}, Flakes, {"absent"} \cup (DrvStdout \ {""}))

InitOrder ==
    /\ RestIdle
    /\ BuildIdle
    /\ nixWorld \in ResolvingWorlds
    /\ fo = [f \in Flakes |-> NewFlakeOutputs]
    /\ evalCalls = [f \in Flakes |-> [listing |-> 0, drv |-> 0]]
    /\ lastCall = NoCall
    /\ answered = [f \in Flakes |-> {}]
    /\ nCalls = 0
    /\ diffPc = "start"

SpecOrder == InitOrder /\ [][NextOrder]_vars

\* compare_outputs(target, base, ...) with the arguments of the last call
\* swapped, run in the same process on the FlakeOutputs objects `objs`.
SwappedCompare(objs) ==
    CompareOutputs(nixWorld, objs, lastCall.target, lastCall.base, lastCall.output_types,
                   lastCall.systems, lastCall.package_filter, lastCall.setOrder).changes

\* C11: for the same filter parameters, the `added` of compare_outputs(A, B) is
\* the `removed` of compare_outputs(B, A) and the `removed` of
\* compare_outputs(A, B) is the `added` of compare_outputs(B, A), the same units
\* in the same order.
C11_AddedRemovedSwap ==
    lastCall.op = "compare" =>
        \A swapped \in {SwappedCompare(fo)} :
            /\ lastCall.changes.added = swapped.removed
            /\ lastCall.changes.removed = swapped.added

\* compare_outputs found two units removed, or two added, or one of each.
C11_Witness ==
    /\ lastCall.op = "compare"
    /\ lastCall.base # lastCall.target
    /\ Len(lastCall.changes.added) + Len(lastCall.changes.removed) = MaxAttrs
    /\ Len(lastCall.changes.removed) > 0

\* The ChangeSet another run of the last comparison returns, in a process in
\* which list(systems_set) yields the systems in the order `order`.
AnotherRun(order) ==
    CompareOutputs(nixWorld, [f \in Flakes |-> NewFlakeOutputs], lastCall.base,
                   lastCall.target, lastCall.output_types, lastCall.systems,
                   lastCall.package_filter, order).changes

\* C12: for the same two snapshots and the same filter parameters, every run of
\* compare_outputs returns the same three sequences, in the same order, also
\* when `systems` is left to its default.
C12_SameOrderOnEveryRun ==
    lastCall.op = "compare" =>
        \A order \in OrdersFor(lastCall.systems) : AnotherRun(order) = lastCall.changes

\* The part of C12 the code keeps: every run returns the same units in each of
\* the three lists, and the same sequences when `systems` is given.
C12_SameUnitsOnEveryRun ==
    lastCall.op = "compare" =>
        \A order \in SetOrders :
            \A other \in {AnotherRun(order)} :
                /\ SeqRange(other.added) = SeqRange(lastCall.changes.added)
                /\ SeqRange(other.removed) = SeqRange(lastCall.changes.removed)
                /\ SeqRange(other.modified) = SeqRange(lastCall.changes.modified)
                /\ lastCall.systems # None => other = lastCall.changes

(***************************************************************************)
(* The filters of a comparison                                             *)
(***************************************************************************)
\* The evaluators of flakes with packages and devShells that resolve every
\* attribute they list to a store path.
FilterWorlds(flakes) == WorldsOver(OutputTypes, flakes, {"absent"} \cup (DrvStdout \ {""}))

\* The kinds, systems and names a comparison is asked for; riscv64-linux is in
\* no flake.
FilterOutputTypesArgs ==
    {None, Some(<<"devShells">>), Some(<<"packages", "devShells">>)}
FilterSystemsArgs ==
    {None, Some(<<"x86_64-linux">>), Some(<<"riscv64-linux", "aarch64-darwin">>),
     Some(<<"riscv64-linux">>)}

DoCompareFiltered ==
    CompareStepOver({<<"base", "head">>}, FilterOutputTypesArgs, FilterSystemsArgs,
                    PackageFilterArgs)

NextFilter == DoCompareFiltered

InitFilter ==
    /\ RestIdle
    /\ BuildIdle
    /\ nixWorld \in FilterWorlds(Flakes)
    /\ fo = [f \in Flakes |-> NewFlakeOutputs]
    /\ evalCalls = [f \in Flakes |-> [listing |-> 0, drv |-> 0]]
    /\ lastCall = NoCall
    /\ answered = [f \in Flakes |-> {}]
    /\ nCalls = 0
    /\ diffPc = "start"

SpecFilter == InitFilter /\ [][NextFilter]_vars

\* Every unit of a ChangeSet: the added and removed ones and both members of
\* the modified pairs.
UnitsIn(cs) ==
    SeqRange(cs.added) \cup SeqRange(cs.removed)
    \cup {cs.modified[i][1] : i \in DOMAIN cs.modified}
    \cup {cs.modified[i][2] : i \in DOMAIN cs.modified}

\* A unit passes the filters of the last call.
PassesFilters(u) ==
    /\ lastCall.systems # None => u.system \in SeqRange(lastCall.systems[1])
    /\ lastCall.package_filter # None => u.name \in SeqRange(lastCall.package_filter[1])
    /\ u.output_type \in SeqRange(IF lastCall.output_types = None THEN <<"packages">>
                                   ELSE lastCall.output_types[1])

\* The comparison of the same two flakes with every kind and no filter.
UnfilteredChanges ==
    CompareOutputs(nixWorld, [f \in Flakes |-> NewFlakeOutputs], lastCall.base,
                   lastCall.target, Some(<<"packages", "devShells">>), None, None,
                   lastCall.setOrder).changes

\* C24: every unit in any list of a compare_outputs result has its system among
\* the requested systems and its leaf name in package_filter, when these are
\* given, and its kind among the requested output types; the lists are the
\* unfiltered comparison's lists less the units the filters exclude; and a
\* requested system that is in neither flake stops nothing and adds no entry.
C24_EveryUnitPassesTheFilters ==
    /\ diffPc = "start" => ENABLED DoCompareFiltered
    /\ lastCall.op = "compare" =>
           \A c \in {lastCall.changes} : \A all \in {UnfilteredChanges} :
               /\ \A u \in UnitsIn(c) : PassesFilters(u)
               /\ SeqRange(c.added) = {u \in SeqRange(all.added) : PassesFilters(u)}
               /\ SeqRange(c.removed) = {u \in SeqRange(all.removed) : PassesFilters(u)}
               /\ SeqRange(c.modified) = {m \in SeqRange(all.modified) : PassesFilters(m[2])}
               /\ \A u \in UnitsIn(c) : u.system # "riscv64-linux"

\* A comparison asked for one system and one name has found a change, while
\* the flakes differ in a unit the filters exclude as well.
C24_Witness ==
    /\ lastCall.op = "compare"
    /\ lastCall.systems # None
    /\ lastCall.package_filter # None
    /\ UnitsIn(lastCall.changes) # {}
    /\ UnitsIn(UnfilteredChanges) # UnitsIn(lastCall.changes)

\* A comparison asked only for a system that is in neither flake has returned
\* no entry, although the flakes differ.
C24_WitnessAbsentSystem ==
    /\ lastCall.op = "compare"
    /\ lastCall.systems = Some(<<"riscv64-linux">>)
    /\ UnitsIn(lastCall.changes) = {}
    /\ UnitsIn(UnfilteredChanges) # {}

(***************************************************************************)
(* Listings that go wrong                                                  *)
(***************************************************************************)
\* A world in which the listing of the packages of flake f goes wrong as
\* faults[f] says ("none": it does not); the listing of the devShells is sound.
WithFaults(world, faults) ==
    [f \in Flakes |-> [a \in Attrs \cup {FaultKey("packages")} |->
        IF a = FaultKey("packages") THEN faults[f] ELSE world[f][a]]]

\* The listing goes wrong in at most one flake, or in the same way in both.
FaultPairs ==
    {faults \in [Flakes -> {"none"} \cup ListingFaults] :
        \/ \E f \in Flakes : faults[f] = "none"
        \/ faults["base"] = faults["head"]}

FaultyWorlds(flakes) ==
    {WithFaults(w, faults) : w \in WorldsOver(OutputTypes, flakes, DrvStdout \ {""}),
                             faults \in FaultPairs}

DoCompareFaulty ==
    CompareStepOver({<<"base", "head">>}, {None, Some(<<"packages", "devShells">>)},
                    {None}, {None})

NextFaulty == DoCompareFaulty

InitFaulty ==
    /\ RestIdle
    /\ BuildIdle
    /\ nixWorld \in FaultyWorlds(Flakes)
    /\ fo = [f \in Flakes |-> NewFlakeOutputs]
    /\ evalCalls = [f \in Flakes |-> [listing |-> 0, drv |-> 0]]
    /\ lastCall = NoCall
    /\ answered = [f \in Flakes |-> {}]
    /\ nCalls = 0
    /\ diffPc = "start"

SpecFaulty == InitFaulty /\ [][NextFaulty]_vars

\* The world in which a kind whose listing goes wrong in a flake is not in
\* that flake at all.
FaultsAsUnavailable(world) ==
    [f \in Flakes |-> [a \in Attrs |->
        IF ListingFault(world, f, a.output_type) # "none" THEN "absent" ELSE world[f][a]]]

\* The attributes of flake f's snapshot in the last call: those of the kinds
\* whose listing is sound that pass the filters and resolve.
SnapshotOf(f) ==
    {a \in Attrs : /\ ListingFault(nixWorld, f, a.output_type) = "none"
                   /\ InSnapshot(nixWorld, f, a, lastCall)}

NoChanges == ChangeSet(<<>>, <<>>, <<>>)

\* compare_outputs returns for every evaluator, and a kind whose listing goes
\* wrong in a flake gives no unit of that flake: the result is that of the
\* flakes without the kind.
TotalAndFaultsUnavailable ==
    /\ diffPc = "start" => ENABLED DoCompareFaulty
    /\ lastCall.op = "compare" =>
           /\ lastCall.changes =
                  CompareOutputs(FaultsAsUnavailable(nixWorld),
                                 [f \in Flakes |-> NewFlakeOutputs], lastCall.base,
                                 lastCall.target, lastCall.output_types, lastCall.systems,
                                 lastCall.package_filter, lastCall.setOrder).changes
           /\ \A u \in SeqRange(lastCall.changes.added)
                       \cup {lastCall.changes.modified[i][2] :
                                 i \in DOMAIN lastCall.changes.modified} :
                  ListingFault(nixWorld, lastCall.target, u.output_type) = "none"
           /\ \A u \in SeqRange(lastCall.changes.removed)
                       \cup {lastCall.changes.modified[i][1] :
                                 i \in DOMAIN lastCall.changes.modified} :
                  ListingFault(nixWorld, lastCall.base, u.output_type) = "none"
           /\ (\A t \in OutputTypes :
                   ListingFault(nixWorld, lastCall.target, t) # "none")
                  => lastCall.changes.added = <<>> /\ lastCall.changes.modified = <<>>

\* C25 as stated: compare_outputs is total, a kind whose listing exits
\* non-zero, is empty or malformed, or raises contributes no entries, and two
\* snapshots with no attribute path in common yield an empty ChangeSet.
C25_DisjointSnapshotsYieldNoChanges ==
    /\ TotalAndFaultsUnavailable
    /\ lastCall.op = "compare" =>
           (SnapshotOf(lastCall.base) \cap SnapshotOf(lastCall.target) = {}
               => lastCall.changes = NoChanges)

\* C25, amended: compare_outputs is total, a kind whose listing exits
\* non-zero, is empty or malformed, or raises contributes no entries, and two
\* snapshots that are both empty after filtering yield an empty ChangeSet.
C25_EmptySnapshotsYieldNoChanges ==
    /\ TotalAndFaultsUnavailable
    /\ lastCall.op = "compare" =>
           (SnapshotOf(lastCall.base) = {} /\ SnapshotOf(lastCall.target) = {}
               => lastCall.changes = NoChanges)

\* The listing of the packages went wrong in both flakes, which both have
\* packages that resolve, and the comparison returned no changes.
C25_Witness ==
    /\ lastCall.op = "compare"
    /\ \A f \in Flakes : ListingFault(nixWorld, f, "packages") # "none"
    /\ \E a \in Attrs : a.output_type = "packages" /\ nixWorld["base"][a] \in DrvStdout
    /\ \E a \in Attrs : a.output_type = "packages" /\ nixWorld["head"][a] \in DrvStdout
    /\ SnapshotOf("base") = {} /\ SnapshotOf("head") = {}
    /\ lastCall.changes = NoChanges

\* The listing of the packages exited non-zero in the head only, after
\* printing them, and the comparison reports the base's package as removed.
C25_WitnessOneSide ==
    /\ lastCall.op = "compare"
    /\ ListingFault(nixWorld, "head", "packages") = "nonzero"
    /\ ListingFault(nixWorld, "base", "packages") = "none"
    /\ \E a \in Attrs : a.output_type = "packages" /\ nixWorld["head"][a] \in DrvStdout
    /\ lastCall.changes.removed # <<>>

(***************************************************************************)
(* Units whose drvPath does not resolve                                    *)
(***************************************************************************)
\* The evaluators of flakes whose packages resolve to a store path, or do not:
\* the command exits non-zero, cannot be run, or prints nothing.
ResolveAnswers == {"nonzero", "raises"} \cup DrvStdout
ResolveAttrs ==
    {Attr("packages", "x86_64-linux", "default"), Attr("packages", "x86_64-linux", "hello")}
ResolveWorlds ==
    {[f \in Flakes |-> [a \in Attrs |-> IF a \in ResolveAttrs THEN g[f][a] ELSE "absent"]] :
        g \in [Flakes -> [ResolveAttrs -> {"absent"} \cup ResolveAnswers]]}

DoCompareResolving ==
    CompareStepOver({<<"base", "head">>}, {Some(<<"packages">>)}, {None}, {None})

NextResolve == DoCompareResolving

InitResolve ==
    /\ RestIdle
    /\ BuildIdle
    /\ nixWorld \in ResolveWorlds
    /\ fo = [f \in Flakes |-> NewFlakeOutputs]
    /\ evalCalls = [f \in Flakes |-> [listing |-> 0, drv |-> 0]]
    /\ lastCall = NoCall
    /\ answered = [f \in Flakes |-> {}]
    /\ nCalls = 0
    /\ diffPc = "start"

SpecResolve == InitResolve /\ [][NextResolve]_vars

\* The evaluator lists attribute a in flake f, and its drvPath resolves there
\* to a text that is not empty.
Listed(f, a) == nixWorld[f][a] # "absent"
Resolves(f, a) == nixWorld[f][a] \in DrvStdout /\ Strip(nixWorld[f][a]) # ""

\* C27: a unit enters a snapshot only if its drvPath resolves to a non-empty
\* text; a path listed in both flakes is removed when it resolves in the base
\* only, added when it resolves in the target only, in no list when it resolves
\* in neither, and in none of these cases modified; and compare_outputs returns.
C27_UnresolvedUnitsAreNotInSnapshots ==
    /\ diffPc = "start" => ENABLED DoCompareResolving
    /\ lastCall.op = "compare" =>
           \A c \in {lastCall.changes} :
               /\ \A u \in UnitsIn(c) : u.drv_path \in DrvPaths
               /\ \A u \in SeqRange(c.added) \cup {c.modified[i][2] : i \in DOMAIN c.modified} :
                      \E a \in Attrs : Resolves(lastCall.target, a)
                                        /\ u = UnitOf(nixWorld, lastCall.target, a)
               /\ \A u \in SeqRange(c.removed) \cup {c.modified[i][1] : i \in DOMAIN c.modified} :
                      \E a \in Attrs : Resolves(lastCall.base, a)
                                        /\ u = UnitOf(nixWorld, lastCall.base, a)
               /\ \A a \in Attrs :
                      \A p \in {AttrPath(a.output_type, a.system, a.name)} :
                      (Listed(lastCall.base, a) /\ Listed(lastCall.target, a)) =>
                          /\ (Resolves(lastCall.base, a) /\ ~Resolves(lastCall.target, a)) =>
                                 /\ Occurrences(c.removed, UnitOf(nixWorld, lastCall.base, a)) = 1
                                 /\ p \notin AttrPathsOf(c.added) \cup NewPathsOf(c.modified)
                          /\ (~Resolves(lastCall.base, a) /\ Resolves(lastCall.target, a)) =>
                                 /\ Occurrences(c.added, UnitOf(nixWorld, lastCall.target, a)) = 1
                                 /\ p \notin AttrPathsOf(c.removed) \cup NewPathsOf(c.modified)
                          /\ (~Resolves(lastCall.base, a) /\ ~Resolves(lastCall.target, a)) =>
                                 p \notin AttrPathsOf(c.added) \cup AttrPathsOf(c.removed)
                                           \cup NewPathsOf(c.modified)

\* Two packages are listed in both flakes: one resolves in the base and prints
\* nothing in the head, the other cannot be resolved in the base and resolves in
\* the head; the first is removed and the second added.
C27_Witness ==
    /\ lastCall.op = "compare"
    /\ \E a, b \in Attrs :
          /\ Resolves("base", a) /\ nixWorld["head"][a] = ""
          /\ nixWorld["base"][b] = "raises" /\ Resolves("head", b)
          /\ lastCall.changes.removed = <<UnitOf(nixWorld, "base", a)>>
          /\ lastCall.changes.added = <<UnitOf(nixWorld, "head", b)>>
          /\ lastCall.changes.modified = <<>>

\* A package listed in both flakes resolves in neither, and is in no list.
C27_WitnessNeither ==
    /\ lastCall.op = "compare"
    /\ \E a \in Attrs : nixWorld["base"][a] = "nonzero" /\ nixWorld["head"][a] = ""
    /\ lastCall.changes = NoChanges

(***************************************************************************)
(* Repeated reads of one FlakeOutputs object                               *)
(***************************************************************************)
\* The most calls made on one object.
MaxCalls == 2

CacheOutputTypesArgs == {None, Some(<<"packages">>), Some(<<"devShells">>)}
CacheSystemsArgs == {None, Some(<<"x86_64-linux">>)}

InitCache ==
    /\ RestIdle
    /\ nixWorld \in Worlds(OutputTypes, {"head"})
    /\ fo = [f \in Flakes |-> NewFlakeOutputs]
    /\ evalCalls = [f \in Flakes |-> [listing |-> 0, drv |-> 0]]
    /\ lastCall = NoCall
    /\ answered = [f \in Flakes |-> {}]
    /\ nCalls = 0
    /\ diffPc = "start"
    /\ BuildIdle

CallsOf(f, n) == [g \in Flakes |-> IF g = f THEN n ELSE 0]

\* A caller runs head.get_derivations(output_types, systems, package_filter).
DoGetDerivations ==
    /\ nCalls < MaxCalls
    /\ \E output_types \in CacheOutputTypesArgs, systems \in CacheSystemsArgs :
       \E r \in {GetDerivations(nixWorld, "head", fo["head"], output_types, systems, None,
                                SystemsSorted)} :
          /\ fo' = [fo EXCEPT !["head"] = r.self]
          /\ evalCalls' = [evalCalls EXCEPT
                              !["head"] = [listing |-> @.listing + r.listingCalls,
                                           drv |-> @.drv + r.drvCalls]]
          /\ lastCall' = [NoCall EXCEPT
                             !.op = "get", !.target = "head", !.output_types = output_types,
                             !.systems = systems, !.ret = r.ret,
                             !.repeated = Params(output_types, systems, None) \in answered["head"],
                             !.listingCalls = CallsOf("head", r.listingCalls),
                             !.drvCalls = CallsOf("head", r.drvCalls)]
          /\ answered' = [answered EXCEPT
                             !["head"] = @ \cup {Params(output_types, systems, None)}]
    /\ nCalls' = nCalls + 1
    /\ UNCHANGED <<nixWorld, diffPc, buildVars, restVars>>

\* A caller runs head._get_raw_outputs(output_types), as cmd_pr does before it
\* compares.
DoGetRawOutputs ==
    /\ nCalls < MaxCalls
    /\ \E output_types \in {None, Some(<<"devShells">>)} :
       \E r \in {GetRawOutputs(nixWorld, "head", fo["head"], output_types)} :
          /\ fo' = [fo EXCEPT !["head"] = r.self]
          /\ evalCalls' = [evalCalls EXCEPT !["head"].listing = @ + r.listingCalls]
          /\ lastCall' = [NoCall EXCEPT
                             !.op = "raw", !.target = "head", !.output_types = output_types,
                             !.listingCalls = CallsOf("head", r.listingCalls)]
    /\ nCalls' = nCalls + 1
    /\ UNCHANGED <<nixWorld, answered, diffPc, buildVars, restVars>>

NextCache == DoGetDerivations \/ DoGetRawOutputs

SpecCache == InitCache /\ [][NextCache]_vars

\* C9: once a FlakeOutputs object has answered get_derivations for some filter
\* parameters, a repeated call with the same parameters invokes the external
\* evaluator neither for a listing nor for a drvPath.
C9_RepeatedReadMakesNoEvaluatorCall ==
    (lastCall.op = "get" /\ lastCall.repeated) =>
        /\ lastCall.listingCalls["head"] = 0
        /\ lastCall.drvCalls["head"] = 0

\* The part of C9 the code keeps: a repeated call runs no listing again.
C9_RepeatedReadMakesNoListingCall ==
    (lastCall.op = "get" /\ lastCall.repeated) => lastCall.listingCalls["head"] = 0

\* What a FlakeOutputs object made for the head just now returns for the
\* parameters of the last call.
FreshAnswer ==
    GetDerivations(nixWorld, "head", NewFlakeOutputs, lastCall.output_types,
                   lastCall.systems, lastCall.package_filter, lastCall.setOrder).ret

\* C26: whatever calls of get_derivations and _get_raw_outputs went before on
\* the same object, get_derivations returns the units a fresh FlakeOutputs of
\* the same flake returns for the same parameters.
C26_AnswerIndependentOfEarlierCalls ==
    lastCall.op = "get" => lastCall.ret = FreshAnswer

(***************************************************************************)
(* build.py: BuildResult, BuildResults, build_derivation                   *)
(***************************************************************************)
BuildResult(derivation, success, output_path, error, build_log) ==
    [derivation |-> derivation, success |-> success, output_path |-> output_path,
     error |-> error, build_log |-> build_log]

\* BuildResults.successful without its filter.
Successful_All(rs) == rs

\* BuildResults.successful, .failed and the three counts.
Successful(rs) == SelectSeq(rs, LAMBDA r : r.success)
Failed(rs) == SelectSeq(rs, LAMBDA r : ~r.success)
TotalCount(rs) == Len(rs)
SuccessCount(rs) == Len(Successful(rs))
FailureCount(rs) == Len(Failed(rs))

\* What running `nix build <flake>#<attr> --no-link --print-out-paths` through
\* run_command can do: exit with a status and two captured texts, or raise
\* because the process could not be spawned.
Exit(returncode, stdout, stderr) ==
    [kind |-> "exit", returncode |-> returncode, stdout |-> stdout, stderr |-> stderr,
     message |-> ""]
Raise(message) ==
    [kind |-> "raise", returncode |-> 0, stdout |-> "", stderr |-> "", message |-> message]

BuilderOutcomes ==
    {Exit(0, "/nix/store/out\n", ""), Exit(1, "", "boom\n"),
     Raise("[Errno 2] No such file or directory: 'nix'")}

\* str.strip() on the texts the builder can print.
StripText(s) ==
    CASE s = "/nix/store/out\n" -> "/nix/store/out"
      [] s = "boom\n" -> "boom"
      [] s = "- old\n+ new\n" -> "- old\n+ new"
      [] s = "nix-diff: getFileStatus: does not exist\n" ->
             "nix-diff: getFileStatus: does not exist"
      [] s \in {"", "\n", " \n"} -> ""
      [] OTHER -> s

\* build_derivation with a non-zero exit reported as a success.
BuildDerivation_ExitIgnored(derivation, outcome) ==
    IF outcome.kind = "raise"
    THEN BuildResult(derivation, FALSE, None, Some(outcome.message), None)
    ELSE BuildResult(derivation, TRUE, Some(StripText(outcome.stdout)), None, None)

\* build_derivation(flake_path, derivation), given what the builder does.
BuildDerivation(derivation, outcome) ==
    IF outcome.kind = "raise"
    THEN BuildResult(derivation, FALSE, None, Some(outcome.message), None)
    ELSE IF outcome.returncode = 0
    THEN BuildResult(derivation, TRUE, Some(StripText(outcome.stdout)), None, None)
    ELSE BuildResult(derivation, FALSE, None,
                     Some(IF outcome.stderr # "" THEN StripText(outcome.stderr)
                          ELSE "Build failed"),
                     Some(outcome.stderr))

(***************************************************************************)
(* build.py: build_changes, with the ThreadPoolExecutor and as_completed   *)
(***************************************************************************)
\* The most units a ChangeSet gives build_changes to build.
MaxUnits == 3
\* The largest max_workers tried.
MaxWorkers == 2
\* Line 101: max_workers when the caller does not pass it.
DefaultMaxWorkers == 4

\* The unit of the i-th changed attribute, as the head revision and as the base
\* revision have it.
NewUnit(i) ==
    DerivationInfo(AttrPath("packages", "x86_64-linux", "p" \o ToString(i)),
                   "/nix/store/new-p" \o ToString(i) \o ".drv",
                   "packages", "x86_64-linux", "p" \o ToString(i))
OldUnit(i) ==
    DerivationInfo(AttrPath("packages", "x86_64-linux", "p" \o ToString(i)),
                   "/nix/store/old-p" \o ToString(i) \o ".drv",
                   "packages", "x86_64-linux", "p" \o ToString(i))

\* The ChangeSets with a added units, m modified pairs and r removed units.
ChangesOf(a, m, r) ==
    ChangeSet([i \in 1..a |-> NewUnit(i)],
              [i \in 1..r |-> OldUnit(a + m + i)],
              [i \in 1..m |-> <<OldUnit(a + i), NewUnit(a + i)>>])

\* to_build with the removed units and the old members of the pairs as well.
ToBuild_WithOld(cs) ==
    cs.added \o [i \in DOMAIN cs.modified |-> cs.modified[i][2]]
             \o [i \in DOMAIN cs.modified |-> cs.modified[i][1]] \o cs.removed

\* Lines 110-112: to_build.
ToBuild(cs) == cs.added \o [i \in DOMAIN cs.modified |-> cs.modified[i][2]]

\* executor.submit: a new pending future for one build_derivation call.
Future(drv) ==
    [drv |-> drv, state |-> "pending", raised |-> FALSE,
     value |-> BuildResult(drv, FALSE, None, None, None)]

\* A progress line: f"  [{len(results)}/{total}] {status} {drv.attr_path}".
ProgressLine(index, total, success, attr_path) ==
    [index |-> index, total |-> total, ok |-> success, attr_path |-> attr_path]

InitBuild ==
    /\ RestIdle
    /\ DiffIdle
    /\ \E a \in 0..MaxUnits : \E m \in 0..(MaxUnits - a) : \E r \in 0..1 :
           changes = ChangesOf(a, m, r)
    /\ max_workers \in (1..MaxWorkers) \cup {DefaultMaxWorkers}
    /\ bpc = "start"
    /\ futures = <<>>
    /\ workQ = <<>>
    /\ running = {}
    /\ readyQ = <<>>
    /\ results = <<>>
    /\ progress = <<>>
    /\ builderRuns = <<>>

\* build_changes without the early return of lines 114-115.
BuildStart_AlwaysPool ==
    /\ bpc = "start"
    /\ bpc' = "submit"
    /\ UNCHANGED <<changes, max_workers, futures, workQ, running, readyQ, results,
                   progress, builderRuns, diffVars, restVars>>

\* Lines 110-117: nothing to build returns at once, else the pool is created.
BuildStart ==
    /\ bpc = "start"
    /\ bpc' = IF ToBuild(changes) = <<>> THEN "done" ELSE "submit"
    /\ UNCHANGED <<changes, max_workers, futures, workQ, running, readyQ, results,
                   progress, builderRuns, diffVars, restVars>>

\* Lines 123-125: executor.submit(build_derivation, flake_path, drv) for the next
\* unit of to_build.
Submit ==
    /\ bpc = "submit"
    /\ Len(futures) < Len(ToBuild(changes))
    /\ futures' = Append(futures, Future(ToBuild(changes)[Len(futures) + 1]))
    /\ workQ' = Append(workQ, Len(futures) + 1)
    /\ UNCHANGED <<changes, max_workers, bpc, running, readyQ, results, progress,
                   builderRuns, diffVars, restVars>>

FinishedFutures == {i \in DOMAIN futures : futures[i].state = "finished"}

\* Line 127: as_completed(future_to_drv) starts.  The futures that have already
\* finished are yielded first, in the order of a set, whatever the order they
\* finished in; the others as they finish.
AsCompleted ==
    /\ bpc = "submit"
    /\ Len(futures) = Len(ToBuild(changes))
    /\ readyQ' \in Perms(FinishedFutures)
    /\ bpc' = "collect"
    /\ UNCHANGED <<changes, max_workers, futures, workQ, running, results, progress,
                   builderRuns, diffVars, restVars>>

\* A pool that starts a thread for every work item, whatever max_workers is.
WorkerStart_Unbounded ==
    /\ workQ # <<>>
    /\ running' = running \cup {Head(workQ)}
    /\ workQ' = Tail(workQ)
    /\ futures' = [futures EXCEPT ![Head(workQ)].state = "running"]
    /\ builderRuns' = Append(builderRuns, [drv |-> futures[Head(workQ)].drv, outcome |-> None])
    /\ UNCHANGED <<changes, max_workers, bpc, readyQ, results, progress, diffVars, restVars>>

\* A worker thread takes the oldest work item and starts build_derivation, which
\* invokes the builder.  The pool never has more than max_workers threads.
WorkerStart ==
    /\ workQ # <<>>
    /\ Cardinality(running) < max_workers
    /\ running' = running \cup {Head(workQ)}
    /\ workQ' = Tail(workQ)
    /\ futures' = [futures EXCEPT ![Head(workQ)].state = "running"]
    /\ builderRuns' = Append(builderRuns, [drv |-> futures[Head(workQ)].drv, outcome |-> None])
    /\ UNCHANGED <<changes, max_workers, bpc, readyQ, results, progress, diffVars, restVars>>

\* The builder of future i ends with some outcome; build_derivation returns and
\* the worker sets the future's result, which wakes as_completed if it waits.
FinishWith(outcomes) ==
    \E i \in running : \E outcome \in outcomes :
        /\ futures' = [futures EXCEPT ![i] = [drv |-> futures[i].drv, state |-> "finished",
                                              raised |-> FALSE,
                                              value |-> BuildDerivation(futures[i].drv, outcome)]]
        /\ running' = running \ {i}
        /\ readyQ' = Append(readyQ, i)
        /\ builderRuns' = [builderRuns EXCEPT
                              ![CHOOSE k \in DOMAIN builderRuns :
                                    builderRuns[k].drv = futures[i].drv /\ builderRuns[k].outcome = None]
                                 .outcome = Some(outcome)]
        /\ UNCHANGED <<changes, max_workers, bpc, workQ, results, progress, diffVars, restVars>>

\* A worker that puts a unit whose builder did not exit 0 back on the queue.
WorkerFinish_Retry ==
    \E i \in running : \E outcome \in BuilderOutcomes :
        /\ ~(outcome.kind = "exit" /\ outcome.returncode = 0)
        /\ Len(builderRuns) <= Len(futures)
        /\ futures' = [futures EXCEPT ![i].state = "pending"]
        /\ running' = running \ {i}
        /\ workQ' = Append(workQ, i)
        /\ builderRuns' = [builderRuns EXCEPT
                              ![CHOOSE k \in DOMAIN builderRuns :
                                    builderRuns[k].drv = futures[i].drv /\ builderRuns[k].outcome = None]
                                 .outcome = Some(outcome)]
        /\ UNCHANGED <<changes, max_workers, bpc, readyQ, results, progress, diffVars, restVars>>

WorkerFinish == FinishWith(BuilderOutcomes)

\* The collector with `drv` bound late: every result carries the unit submitted last.
Collected_LastUnit(future) ==
    [derivation |-> futures[Len(futures)].drv, success |-> future.value.success,
     output_path |-> future.value.output_path, error |-> future.value.error,
     build_log |-> future.value.build_log]

\* Lines 128-139: the result appended for a yielded future.
Collected(future) ==
    IF future.raised
    THEN BuildResult(future.drv, FALSE, None, Some("Unexpected error"), None)
    ELSE future.value

\* Lines 127-141: one turn of the loop over as_completed.
Collect ==
    /\ bpc = "collect"
    /\ readyQ # <<>>
    /\ results' = Append(results, Collected(futures[Head(readyQ)]))
    /\ progress' = Append(progress,
                          ProgressLine(Len(results) + 1, Len(ToBuild(changes)),
                                       Collected(futures[Head(readyQ)]).success,
                                       futures[Head(readyQ)].drv.attr_path))
    /\ readyQ' = Tail(readyQ)
    /\ UNCHANGED <<changes, max_workers, bpc, futures, workQ, running, builderRuns, diffVars, restVars>>

\* Line 143: as_completed has yielded every future, the pool shuts down and
\* build_changes returns BuildResults(results).
BuildReturn ==
    /\ bpc = "collect"
    /\ readyQ = <<>>
    /\ FinishedFutures = DOMAIN futures
    /\ bpc' = "done"
    /\ UNCHANGED <<changes, max_workers, futures, workQ, running, readyQ, results,
                   progress, builderRuns, diffVars, restVars>>

NextBuild ==
    \/ BuildStart
    \/ Submit
    \/ AsCompleted
    \/ WorkerStart
    \/ WorkerFinish
    \/ Collect
    \/ BuildReturn

SpecBuild == InitBuild /\ [][NextBuild]_vars

\* build_changes with a builder that, when it fails, may print nothing or only
\* blanks on stderr.
QuietOutcomes ==
    {Exit(0, "/nix/store/out\n", ""), Exit(1, "", "boom\n"), Exit(1, "", ""),
     Exit(1, "", " \n")}

WorkerFinishQuiet == FinishWith(QuietOutcomes)

NextQuiet ==
    \/ BuildStart
    \/ Submit
    \/ AsCompleted
    \/ WorkerStart
    \/ WorkerFinishQuiet
    \/ Collect
    \/ BuildReturn

SpecQuiet == InitBuild /\ [][NextQuiet]_vars

\* The builder outcome of the invocation made for a unit.
OutcomeOf(drv) ==
    builderRuns[CHOOSE k \in DOMAIN builderRuns : builderRuns[k].drv = drv].outcome

\* C2: for every list of units, every max_workers >= 1 and every interleaving
\* of the workers, `results` never holds two results of one unit nor a result of
\* a unit that was not submitted, and when build_changes returns it holds exactly
\* one BuildResult for each submitted unit, whose derivation is that unit.
C2_OneResultPerSubmittedUnit ==
    /\ \A k1, k2 \in DOMAIN results :
           k1 # k2 => results[k1].derivation # results[k2].derivation
    /\ \A k \in DOMAIN results : results[k].derivation \in SeqRange(ToBuild(changes))
    /\ bpc = "done" =>
           /\ Len(results) = Len(ToBuild(changes))
           /\ \A i \in DOMAIN ToBuild(changes) :
                  Cardinality({k \in DOMAIN results :
                                  results[k].derivation = ToBuild(changes)[i]}) = 1

\* build_changes has returned the results of MaxUnits units, built by more than
\* one worker, in an order that is not the submission order.
C2_Witness ==
    /\ bpc = "done"
    /\ max_workers > 1
    /\ Len(results) = MaxUnits
    /\ [k \in DOMAIN results |-> results[k].derivation] # ToBuild(changes)

\* C3: a build invocation that exits non-zero or raises is recorded as a failed
\* BuildResult of its own unit: every collected result is what build_derivation
\* makes of that unit's own builder outcome (failed exactly when the builder did
\* not exit 0), whatever the other invocations did; build_changes is never
\* stuck before it returns, and it returns with a result for every unit.
C3_FailureStaysWithItsUnit ==
    /\ \A k \in DOMAIN results :
           LET r == results[k]
               o == OutcomeOf(r.derivation)
           IN  /\ o # None
               /\ r.success <=> (o[1].kind = "exit" /\ o[1].returncode = 0)
               /\ ~r.success => r.error # None
               /\ r = BuildDerivation(r.derivation, o[1])
    /\ bpc # "done" => ENABLED NextBuild
    /\ bpc = "done" =>
           \A i \in DOMAIN ToBuild(changes) :
               \E k \in DOMAIN results : results[k].derivation = ToBuild(changes)[i]

\* build_changes has returned after one invocation raised, one exited non-zero
\* and one succeeded.
C3_Witness ==
    /\ bpc = "done"
    /\ \E k \in DOMAIN results : OutcomeOf(results[k].derivation)[1].kind = "raise"
    /\ \E k \in DOMAIN results :
           /\ OutcomeOf(results[k].derivation)[1].kind = "exit"
           /\ OutcomeOf(results[k].derivation)[1].returncode # 0
    /\ \E k \in DOMAIN results : results[k].success

\* The units the builder has been invoked for so far.
BuiltUnits == {builderRuns[k].drv : k \in DOMAIN builderRuns}

\* The units a ChangeSet asks to build: the added ones and the new member of
\* each modified pair.
NewMembers(cs) == SeqRange(cs.added) \cup {cs.modified[i][2] : i \in DOMAIN cs.modified}
\* The units it must leave alone: the removed ones and the old member of each
\* modified pair.
OldMembers(cs) == SeqRange(cs.removed) \cup {cs.modified[i][1] : i \in DOMAIN cs.modified}

\* C13: the builder is only ever invoked for a unit of changes.added or for the
\* new member of a pair of changes.modified, never for a unit of changes.removed
\* nor for the old member of a pair; the same holds of the submitted futures,
\* and when build_changes returns, the units built are exactly those.
C13_OnlyAddedAndNewMembersAreBuilt ==
    /\ BuiltUnits \subseteq NewMembers(changes)
    /\ BuiltUnits \cap OldMembers(changes) = {}
    /\ \A i \in DOMAIN futures : futures[i].drv \in NewMembers(changes) \ OldMembers(changes)
    /\ bpc = "done" => BuiltUnits = NewMembers(changes)

\* build_changes has returned for a ChangeSet with an added unit, a modified
\* pair and a removed unit, and the builder ran for two units.
C13_Witness ==
    /\ bpc = "done"
    /\ changes.added # <<>>
    /\ changes.modified # <<>>
    /\ changes.removed # <<>>
    /\ Cardinality(BuiltUnits) >= 2

\* The invocations of the builder that have started and not ended.
RunningBuilders == {k \in DOMAIN builderRuns : builderRuns[k].outcome = None}

\* C14: at every moment of build_changes, the builder invocations that have
\* started and not yet ended are at most max_workers, whether max_workers is
\* passed or left to its default of 4, however many units were submitted.
C14_AtMostMaxWorkersRunning ==
    /\ Cardinality(RunningBuilders) <= max_workers
    /\ Cardinality(running) <= max_workers
    /\ max_workers \in (1..MaxWorkers) \cup {DefaultMaxWorkers}

\* max_workers builders run while a submitted unit waits for a free worker.
C14_Witness ==
    /\ Cardinality(RunningBuilders) = max_workers
    /\ workQ # <<>>
    /\ Len(futures) > max_workers

\* The submitted units whose builder was made to fail: it did not exit 0.
FailingUnits ==
    {u \in SeqRange(ToBuild(changes)) :
        \E k \in DOMAIN builderRuns :
            /\ builderRuns[k].drv = u
            /\ builderRuns[k].outcome # None
            /\ ~(builderRuns[k].outcome[1].kind = "exit" /\ builderRuns[k].outcome[1].returncode = 0)}

\* The outcomes the units and their builders determine, whatever the pool does.
ExpectedOutcomes ==
    {BuildDerivation(u, OutcomeOf(u)[1]) : u \in SeqRange(ToBuild(changes))}

\* C15: when build_changes returns for N units of which k were made to fail,
\* failure_count is k and success_count is N - k, the attr_path of every
\* failing unit is in exactly one failed result, and the set of outcomes is
\* the one the units and their builders determine, the same for max_workers = 1
\* as for any larger max_workers.
C15_CountsAndOutcomesWhateverTheWorkers ==
    bpc = "done" =>
        /\ FailureCount(results) = Cardinality(FailingUnits)
        /\ SuccessCount(results) = Len(ToBuild(changes)) - Cardinality(FailingUnits)
        /\ TotalCount(results) = Len(ToBuild(changes))
        /\ \A u \in FailingUnits :
               Cardinality({k \in DOMAIN Failed(results) :
                               Failed(results)[k].derivation.attr_path = u.attr_path}) = 1
        /\ SeqRange(results) = ExpectedOutcomes

\* build_changes has returned for MaxUnits units, some made to fail and some
\* not, built by one worker.
C15_Witness ==
    /\ bpc = "done"
    /\ max_workers = 1
    /\ Len(ToBuild(changes)) = MaxUnits
    /\ Cardinality(FailingUnits) \in 1..(MaxUnits - 1)

\* The same, built by as many workers as there are units, out of submission order.
C15_WitnessParallel ==
    /\ bpc = "done"
    /\ max_workers >= Len(ToBuild(changes))
    /\ Len(ToBuild(changes)) = MaxUnits
    /\ Cardinality(FailingUnits) \in 1..(MaxUnits - 1)
    /\ [k \in DOMAIN results |-> results[k].derivation] # ToBuild(changes)

\* C16: when changes.added and changes.modified are both empty, build_changes
\* creates no pool, submits nothing, starts no worker and invokes no builder,
\* prints no progress line, and the BuildResults it returns has total_count,
\* success_count and failure_count 0.
C16_NothingToBuild ==
    (changes.added = <<>> /\ changes.modified = <<>>) =>
        /\ bpc \in {"start", "done"}
        /\ futures = <<>>
        /\ workQ = <<>>
        /\ running = {}
        /\ builderRuns = <<>>
        /\ progress = <<>>
        /\ TotalCount(results) = 0
        /\ SuccessCount(results) = 0
        /\ FailureCount(results) = 0

\* build_changes has returned for a ChangeSet that only removes a unit.
C16_Witness ==
    /\ bpc = "done"
    /\ changes.added = <<>>
    /\ changes.modified = <<>>
    /\ changes.removed # <<>>

\* The BuildResults made so far: those build_derivation has returned and
\* those the collector has appended.
ProducedResults ==
    {futures[i].value : i \in FinishedFutures} \cup SeqRange(results)

\* C17: every BuildResult produced has its output_path present exactly when
\* success is true, and its error and its build_log present exactly when
\* success is false.
C17_PresenceFollowsSuccess ==
    \A r \in ProducedResults :
        /\ r.output_path # None <=> r.success
        /\ r.error # None <=> ~r.success
        /\ r.build_log # None <=> ~r.success

\* The part of C17 the code keeps: output_path is present exactly on success,
\* error exactly on failure, and a build_log only on failure.
C17_OutputAndErrorFollowSuccess ==
    \A r \in ProducedResults :
        /\ r.output_path # None <=> r.success
        /\ r.error # None <=> ~r.success
        /\ r.build_log # None => ~r.success

\* The text recorded for a builder that exited non-zero: its stderr stripped,
\* or "Build failed" when that leaves nothing.
Diagnostic(stderr) == IF StripText(stderr) = "" THEN "Build failed" ELSE StripText(stderr)

\* The collected results of the builders that exited non-zero.
NonZeroExits ==
    {r \in SeqRange(results) :
        /\ OutcomeOf(r.derivation)[1].kind = "exit"
        /\ OutcomeOf(r.derivation)[1].returncode # 0}

\* C18: when the builder exits non-zero, the recorded error is the captured
\* stderr text, or "Build failed" when stderr is empty or blank once stripped;
\* the error of a failed result is never the empty text.
C18_ErrorIsDiagnosticOrSynthetic ==
    /\ \A r \in NonZeroExits :
           r.error = Some(Diagnostic(OutcomeOf(r.derivation)[1].stderr))
    /\ \A r \in SeqRange(results) : ~r.success => r.error # Some("")

\* The part of C18 the code keeps: the error is the stripped stderr, and it is
\* "Build failed" when stderr is the empty text.
C18_ErrorIsStderrOrSyntheticWhenEmpty ==
    \A r \in NonZeroExits :
        \A stderr \in {OutcomeOf(r.derivation)[1].stderr} :
            /\ stderr = "" => r.error = Some("Build failed")
            /\ stderr # "" => r.error = Some(StripText(stderr))

\* A builder that printed only blanks on stderr has its failure collected.
C18_BlankStderrCollected ==
    \E r \in NonZeroExits : OutcomeOf(r.derivation)[1].stderr = " \n"

\* The invocations of the builder made for a unit.
RunsOf(u) == {k \in DOMAIN builderRuns : builderRuns[k].drv = u}

\* C19: the builder is never invoked twice for a unit, whether its first
\* invocation failed, succeeded or is still running, and when build_changes
\* returns it has been invoked exactly once for each submitted unit and each
\* failure is reported by one result.
C19_BuilderInvokedOncePerUnit ==
    /\ \A k1, k2 \in DOMAIN builderRuns :
           builderRuns[k1].drv = builderRuns[k2].drv => k1 = k2
    /\ Len(builderRuns) <= Len(futures)
    /\ bpc = "done" =>
           /\ \A i \in DOMAIN ToBuild(changes) : Cardinality(RunsOf(ToBuild(changes)[i])) = 1
           /\ Len(builderRuns) = Len(ToBuild(changes))
           /\ \A k \in DOMAIN builderRuns : builderRuns[k].outcome # None
           /\ FailureCount(results) = Cardinality(FailingUnits)

\* build_changes has returned after the builder failed for one unit and
\* succeeded for another, with every worker free to take more work.
C19_Witness ==
    /\ bpc = "done"
    /\ Len(builderRuns) = MaxUnits
    /\ Cardinality(FailingUnits) \in 1..(MaxUnits - 1)
    /\ max_workers > 1
    /\ running = {}

\* One progress line has been printed for each collected outcome: the i-th
\* line has index i out of the number of submitted units, and the marker and
\* the attr_path of the i-th collected outcome.
LinesFollowCollection ==
    /\ Len(progress) = Len(results)
    /\ \A i \in DOMAIN progress :
           progress[i] = ProgressLine(i, Len(ToBuild(changes)), results[i].success,
                                      results[i].derivation.attr_path)
    /\ bpc = "done" => Len(progress) = Len(ToBuild(changes))

\* as_completed hands the futures that had finished before it started to the
\* collector in the order they finished.
YieldedInCompletionOrder ==
    (bpc = "submit" /\ bpc' = "collect") => readyQ' = readyQ

\* Once as_completed has started, a build that completes joins the end of the
\* queue and the collector takes the outcomes from its front.
QueuedAsCompleted ==
    bpc = "collect" =>
        readyQ' \in {readyQ} \cup {Append(readyQ, i) : i \in running}
                     \cup (IF readyQ = <<>> THEN {} ELSE {Tail(readyQ)})

\* C20: build_changes prints exactly one progress line per submitted unit, when
\* the unit's outcome is collected, the i-th line with index i out of total and
\* the marker and attr_path of the i-th collected outcome, and the outcomes are
\* collected in the order the builds completed.
C20_ProgressInCompletionOrder ==
    []LinesFollowCollection /\ [][YieldedInCompletionOrder]_vars

\* The part of C20 the code keeps: one line per collected outcome, indexed
\* 1, 2, ..., total without gap or repeat, and the builds that complete after
\* as_completed has started are collected in the order they complete.
C20_OneLinePerCollectedOutcome ==
    []LinesFollowCollection /\ [][QueuedAsCompleted]_vars

(***************************************************************************)
(* report.py: texts                                                        *)
(* A text is the sequence of its lines, which is what str.split("\n")      *)
(* returns: the empty string is <<"">>, and "\n".join of a non-empty list  *)
(* of strings is the concatenation of their lines.  A Python list `lines`  *)
(* is kept as the lines of its items.  The glyphs of the source are        *)
(* spelled in ASCII: (+) Added, (~) Modified, (-) Removed, [ok], [x], and  *)
(* the backquote is written as an apostrophe.                              *)
(***************************************************************************)
\* "\n".join(lines)
Join(lines) == IF lines = <<>> THEN <<"">> ELSE lines

\* s.split("\n") for the strings of the model.
SplitLines(s) ==
    CASE s = "- old\n+ new" -> <<"- old", "+ new">>
      [] OTHER -> <<s>>

\* The lines of the model for which line.strip() is empty.
BlankLines == {"", " "}
IsBlank(l) == l \in BlankLines

\* Truth value of an Optional[str]: None and "" are false.
Truthy(opt) == opt # None /\ opt[1] # ""

\* d.get(k, default) on a dict with string keys.
Get(d, k, default) == IF k \in DOMAIN d THEN d[k] ELSE default

\* The order of sorted() on the system names that occur.
SystemOrder == <<"aarch64-darwin", "riscv64-linux", "x86_64-linux">>
\* sorted(xs) for a list (duplicates stay) and for a set.
Sorted(xs) ==
    SeqConcat([i \in DOMAIN SystemOrder |->
                   SelectSeq(xs, LAMBDA x : x = SystemOrder[i])])
SortedSet(S) == SelectSeq(SystemOrder, LAMBDA x : x \in S)

RECURSIVE JoinComma(_)
\* ", ".join(xs)
JoinComma(xs) ==
    IF xs = <<>> THEN ""
    ELSE IF Len(xs) = 1 THEN xs[1]
    ELSE xs[1] \o ", " \o JoinComma(Tail(xs))

DefaultTitle == "Flake Review Results"
\* The title cmd_pr passes.
PrTitle == "Flake Review Results for [#1](https://github.com/o/r/pull/1)"
TitleLines(title) == <<"# " \o title, "">>
FooterLine == "*Generated by [flake-review](https://github.com/ojsef39/flake-review)*"
Footer == <<"---", FooterLine>>

(***************************************************************************)
(* report.py: _get_nix_diff, _format_diff_section, _format_build_error     *)
(***************************************************************************)
\* What running nix-diff on a pair can do: print a diff, fail with a message
\* on stderr, or not be found on PATH.
DiffToolOutcomes ==
    {Exit(0, "- old\n+ new\n", ""),
     Exit(1, "", "nix-diff: getFileStatus: does not exist\n"),
     Raise("FileNotFoundError")}

\* _get_nix_diff(old_drv, new_drv, color), given what the tool does.
GetNixDiff(outcome) ==
    IF outcome.kind = "raise" THEN None
    ELSE IF StripText(outcome.stdout) # "" THEN Some(StripText(outcome.stdout))
    ELSE None

FormatDiffSection(diff, markdown) ==
    IF ~Truthy(diff) THEN <<>>
    ELSE LET diff_lines == SplitLines(diff[1])
         IN  IF markdown
             THEN <<"  <details>", "  <summary>Derivation diff</summary>", "",
                    "  '''diff">>
                  \o [i \in DOMAIN diff_lines |-> "  " \o diff_lines[i]]
                  \o <<"  '''", "", "  </details>">>
             ELSE [i \in DOMAIN diff_lines |-> "    " \o diff_lines[i]]

\* The console shows the last ErrorTail lines of a build error.
ErrorTail == 20

FormatBuildError(error, markdown) ==
    LET error_lines == SelectSeq(SplitLines(StripText(error)), LAMBDA l : ~IsBlank(l))
        n == Len(error_lines)
    IN  IF error_lines = <<>> THEN <<>>
        ELSE IF markdown
        THEN <<"  <details>", "  <summary>Build error</summary>", "", "  '''">>
             \o [i \in DOMAIN error_lines |-> "  " \o error_lines[i]]
             \o <<"  '''", "", "  </details>">>
        ELSE LET tail == IF n > ErrorTail
                         THEN SubSeq(error_lines, n - ErrorTail + 1, n)
                         ELSE error_lines
             IN  [i \in DOMAIN tail |-> "    " \o tail[i]]

(***************************************************************************)
(* report.py: format_detailed_changes, generate_markdown_report,           *)
(* print_console_report                                                    *)
(***************************************************************************)
\* result_map.get(attr_path): the last result of that path, or None.
ResultMapGet(rs, attr_path) ==
    LET I == {i \in DOMAIN rs : rs[i].derivation.attr_path = attr_path}
    IN  IF I = {} THEN None
        ELSE Some(rs[CHOOSE i \in I : \A j \in I : j <= i])

\* Lines 104-114 and 120-130: the lines of one added or modified unit.
ResultLines(result, attr_path, markdown) ==
    IF result # None /\ result[1].success
    THEN <<"- [ok] '" \o attr_path \o "'">>
         \o (IF Truthy(result[1].output_path)
             THEN <<"  - Output: '" \o result[1].output_path[1] \o "'">>
             ELSE <<>>)
    ELSE IF result # None
    THEN <<"- [x] '" \o attr_path \o "' (build failed)">>
         \o (IF Truthy(result[1].error)
             THEN FormatBuildError(result[1].error[1], markdown)
             ELSE <<>>)
    ELSE <<"- '" \o attr_path \o "'">>

\* format_detailed_changes; tool[i] is what nix-diff does when it is run on
\* the i-th modified pair during this call.
FormatDetailedChanges(cs, rs, markdown, tool) ==
    Join(
        (IF cs.added = <<>> THEN <<>>
         ELSE <<"### (+) Added (" \o ToString(Len(cs.added)) \o ")", "">>
              \o SeqConcat([i \in DOMAIN cs.added |->
                     ResultLines(ResultMapGet(rs, cs.added[i].attr_path),
                                 cs.added[i].attr_path, markdown)])
              \o <<"">>)
        \o
        (IF cs.modified = <<>> THEN <<>>
         ELSE <<"### (~) Modified (" \o ToString(Len(cs.modified)) \o ")", "">>
              \o SeqConcat([i \in DOMAIN cs.modified |->
                     ResultLines(ResultMapGet(rs, cs.modified[i][2].attr_path),
                                 cs.modified[i][2].attr_path, markdown)
                     \o FormatDiffSection(GetNixDiff(tool[i]), markdown)])
              \o <<"">>)
        \o
        (IF cs.removed = <<>> THEN <<>>
         ELSE <<"### (-) Removed (" \o ToString(Len(cs.removed)) \o ")", "">>
              \o [i \in DOMAIN cs.removed |-> "- '" \o cs.removed[i].attr_path \o "'"]
              \o <<"">>))

\* The test of line 170 when it looks at the added units only.
HasChanges_AddedOnly(cs) == cs.added # <<>>

HasChanges(cs) == cs.added # <<>> \/ cs.modified # <<>> \/ cs.removed # <<>>

\* The header lines both Markdown renderers write for the two system lists.
SystemLines(available, requested) ==
    (IF available # <<>>
     THEN <<"**Available systems:** " \o JoinComma(available)>> ELSE <<>>)
    \o (IF requested # <<>>
        THEN <<"**Requested systems:** " \o JoinComma(requested)>> ELSE <<>>)
    \o (IF requested # <<>> \/ available # <<>> THEN <<"">> ELSE <<>>)

\* generate_markdown_report; requested_systems is None or Some(list),
\* available_systems is None or Some(set).
GenerateMarkdownReport(cs, rs, title, requested_systems, available_systems, tool) ==
    Join(TitleLines(title)
         \o SystemLines(
                IF available_systems # None THEN SortedSet(available_systems[1]) ELSE <<>>,
                IF requested_systems # None THEN Sorted(requested_systems[1]) ELSE <<>>)
         \o (IF HasChanges(cs) THEN FormatDetailedChanges(cs, rs, TRUE, tool) ELSE <<>>)
         \o Footer)

Rule == "============================================================"

\* print_console_report: the lines it prints.
PrintConsoleReport(cs, rs, tool) ==
    <<"", Rule, "FLAKE REVIEW RESULTS", Rule, "">>
    \o (IF HasChanges(cs) THEN FormatDetailedChanges(cs, rs, FALSE, tool) ELSE <<>>)
    \o <<Rule, "">>

(***************************************************************************)
(* report.py: the JSON report                                              *)
(* A JSON object is a record; a key that may be null holds an Optional.    *)
(***************************************************************************)
DrvToDict(drv) ==
    [attr_path |-> drv.attr_path, drv_path |-> drv.drv_path,
     output_type |-> drv.output_type, system |-> drv.system, name |-> drv.name]

\* _build_to_dict(result), result being None or Some(BuildResult).
BuildToDict(result) ==
    IF result = None THEN None
    ELSE Some([success |-> result[1].success, output_path |-> result[1].output_path,
               error |-> result[1].error])

\* An entry of the "added" list: the unit's dict with its "build" key.
AddedEntry(drv, build) ==
    [attr_path |-> drv.attr_path, drv_path |-> drv.drv_path,
     output_type |-> drv.output_type, system |-> drv.system, name |-> drv.name,
     build |-> build]

ModifiedEntry(old, new, nix_diff, build) ==
    [old |-> DrvToDict(old), new |-> DrvToDict(new), nix_diff |-> nix_diff,
     build |-> build]

\* The schema version generate_json_report and merge_json_reports write.
SchemaVersion == 1

ReportDoc(version, requested, available, added, removed, modified) ==
    [version |-> version,
     metadata |-> [requested_systems |-> requested, available_systems |-> available],
     changes |-> [added |-> added, removed |-> removed, modified |-> modified]]

\* generate_json_report; tool[i] is what nix-diff does when it is run on the
\* i-th modified pair during this call.
GenerateJsonReport(cs, rs, requested_systems, available_systems, tool) ==
    ReportDoc(SchemaVersion,
        IF requested_systems # None /\ requested_systems[1] # <<>>
        THEN requested_systems[1] ELSE <<>>,
        IF available_systems # None /\ available_systems[1] # {}
        THEN SortedSet(available_systems[1]) ELSE <<>>,
        [i \in DOMAIN cs.added |->
            AddedEntry(cs.added[i], BuildToDict(ResultMapGet(rs, cs.added[i].attr_path)))],
        [i \in DOMAIN cs.removed |-> DrvToDict(cs.removed[i])],
        [i \in DOMAIN cs.modified |->
            ModifiedEntry(cs.modified[i][1], cs.modified[i][2], GetNixDiff(tool[i]),
                          BuildToDict(ResultMapGet(rs, cs.modified[i][2].attr_path)))])

\* The outcome of a call that can raise.
Returned(value) == [raised |-> FALSE, value |-> value, message |-> "", file |-> 0]
Raised(message, file) == [raised |-> TRUE, value |-> <<>>, message |-> message, file |-> file]

\* A file: its text, and the value json.load makes of it (None when the text
\* is not JSON).
File(text, json) == [text |-> text, json |-> json]

\* json.dumps(data, indent=2) written to a file.  Of the text only its first
\* and last line and the top-level keys are kept, one per line.
JsonText(data) ==
    <<"{">>
    \o (IF "version" \in DOMAIN data
        THEN <<"  \"version\": " \o ToString(data.version) \o ",">> ELSE <<>>)
    \o (IF "metadata" \in DOMAIN data THEN <<"  \"metadata\": {...},">> ELSE <<>>)
    \o (IF "changes" \in DOMAIN data THEN <<"  \"changes\": {...}">> ELSE <<>>)
    \o <<"}">>
JsonFile(data) == File(JsonText(data), Some(data))

\* load_json_report(path) on the n-th file of the command line.
LoadJsonReport(file, n) ==
    IF file.json = None THEN Raised("JSONDecodeError", n)
    ELSE IF "version" \notin DOMAIN file.json[1] \/ "changes" \notin DOMAIN file.json[1]
    THEN Raised("Invalid JSON report", n)
    ELSE Returned(file.json[1])

\* The renderer with an entry that has no build shown as a failed build.
BuildLines_NullAsFailed(build, attr_path) ==
    IF build # None /\ Get(build[1], "success", FALSE)
    THEN <<"- [ok] '" \o attr_path \o "'">>
    ELSE <<"- [x] '" \o attr_path \o "' (build failed)">>

\* Lines 328-342 and 344-359: the lines of one entry's build outcome.
BuildLines(build, attr_path) ==
    IF build # None /\ Get(build[1], "success", FALSE)
    THEN <<"- [ok] '" \o attr_path \o "'">>
         \o (IF Truthy(Get(build[1], "output_path", None))
             THEN <<"  - Output: '" \o build[1].output_path[1] \o "'">>
             ELSE <<>>)
    ELSE IF build # None
    THEN <<"- [x] '" \o attr_path \o "' (build failed)">>
         \o (IF Truthy(Get(build[1], "error", None))
             THEN FormatBuildError(build[1].error[1], TRUE)
             ELSE <<>>)
    ELSE <<"- '" \o attr_path \o "'">>

\* _render_markdown_from_json(data, title)
RenderMarkdownFromJson(data, title) ==
    LET meta == Get(data, "metadata", <<>>)
        available == Get(meta, "available_systems", <<>>)
        requested == Get(meta, "requested_systems", <<>>)
        chg == Get(data, "changes", <<>>)
        added == Get(chg, "added", <<>>)
        removed == Get(chg, "removed", <<>>)
        modified == Get(chg, "modified", <<>>)
    IN  Join(TitleLines(title)
             \o SystemLines(Sorted(available), Sorted(requested))
             \o (IF added = <<>> THEN <<>>
                 ELSE <<"### (+) Added (" \o ToString(Len(added)) \o ")", "">>
                      \o SeqConcat([i \in DOMAIN added |->
                             BuildLines(Get(added[i], "build", None),
                                        added[i].attr_path)])
                      \o <<"">>)
             \o (IF modified = <<>> THEN <<>>
                 ELSE <<"### (~) Modified (" \o ToString(Len(modified)) \o ")", "">>
                      \o SeqConcat([i \in DOMAIN modified |->
                             BuildLines(Get(modified[i], "build", None),
                                        modified[i].new.attr_path)
                             \o FormatDiffSection(Get(modified[i], "nix_diff", None),
                                                  TRUE)])
                      \o <<"">>)
             \o (IF removed = <<>> THEN <<>>
                 ELSE <<"### (-) Removed (" \o ToString(Len(removed)) \o ")", "">>
                      \o [i \in DOMAIN removed |-> "- '" \o removed[i].attr_path \o "'"]
                      \o <<"">>)
             \o Footer)

(***************************************************************************)
(* report.py: merge_json_reports, merge_markdown_reports                   *)
(***************************************************************************)
RECURSIVE ExtendAll_Distinct(_, _, _)
\* The list built when an entry already in the list is not added again.
ExtendAll_Distinct(datas, key, acc) ==
    IF datas = <<>> THEN acc
    ELSE ExtendAll_Distinct(Tail(datas), key,
             acc \o SelectSeq(Get(Get(Head(datas), "changes", <<>>), key, <<>>),
                              LAMBDA x : x \notin SeqRange(acc)))

RECURSIVE ExtendAll(_, _, _)
\* The list built by extend()ing with changes.get(key, []) of each report.
ExtendAll(datas, key, acc) ==
    IF datas = <<>> THEN acc
    ELSE ExtendAll(Tail(datas), key,
                   acc \o Get(Get(Head(datas), "changes", <<>>), key, <<>>))

\* The set built by update()ing with meta.get(key, []) of each report.
UpdateAll(datas, key) ==
    UNION {SeqRange(Get(Get(datas[i], "metadata", <<>>), key, <<>>)) : i \in DOMAIN datas}

\* Lines 384-388 with the lists of systems concatenated instead of united.
Combined_Concatenated(datas) ==
    ReportDoc(SchemaVersion,
              SeqConcat([i \in DOMAIN datas |->
                            Get(Get(datas[i], "metadata", <<>>), "requested_systems", <<>>)]),
              SeqConcat([i \in DOMAIN datas |->
                            Get(Get(datas[i], "metadata", <<>>), "available_systems", <<>>)]),
              ExtendAll(datas, "added", <<>>),
              ExtendAll(datas, "removed", <<>>),
              ExtendAll(datas, "modified", <<>>))

\* Lines 384-412: the `combined` dict of the loaded reports.
Combined(datas) ==
    ReportDoc(SchemaVersion,
              SortedSet(UpdateAll(datas, "requested_systems")),
              SortedSet(UpdateAll(datas, "available_systems")),
              ExtendAll(datas, "added", <<>>),
              ExtendAll(datas, "removed", <<>>),
              ExtendAll(datas, "modified", <<>>))

\* The load_json_report outcomes of the files, in order.
Loads(files) == [i \in DOMAIN files |-> LoadJsonReport(files[i], i)]

\* merge_json_reports(report_files, title): the first file that fails to load
\* raises, else the combined dict is rendered.
MergeJsonReports(files, title) ==
    LET loads == Loads(files)
        bad == {i \in DOMAIN files : loads[i].raised}
    IN  IF bad # {}
        THEN loads[CHOOSE i \in bad : \A j \in bad : i <= j]
        ELSE Returned(RenderMarkdownFromJson(
                          Combined([i \in DOMAIN files |-> loads[i].value]), title))

RECURSIVE DropLeading(_, _)
\* The lines left after the leading lines that are in Drop have been popped.
DropLeading(lines, Drop) ==
    IF lines # <<>> /\ Head(lines) \in Drop THEN DropLeading(Tail(lines), Drop) ELSE lines

RECURSIVE DropTrailing(_, _)
DropTrailing(lines, Drop) ==
    IF lines # <<>> /\ lines[Len(lines)] \in Drop
    THEN DropTrailing(SubSeq(lines, 1, Len(lines) - 1), Drop)
    ELSE lines

\* open(path).read().strip().split("\n"): blank lines at both ends go, and a
\* text with nothing else becomes the empty string.
StripSplit(text) ==
    Join(DropTrailing(DropLeading(text, BlankLines), BlankLines))

\* line.startswith("# "), "Generated by [flake-review]" in line and
\* line.strip() == "---", for the lines of the model.
IsTitleLine(l) == l \in {"# " \o DefaultTitle, "# " \o PrTitle}
IsFooterLine(l) == l = FooterLine
IsRuleLine(l) == l = "---"

RECURSIVE Filtered(_, _)
\* Lines 199-207: the loop that builds `filtered`.
Filtered(lines, filtered) ==
    IF lines = <<>> THEN filtered
    ELSE LET line == Head(lines)
         IN  IF IsTitleLine(line) \/ IsFooterLine(line)
                \/ (IsRuleLine(line) /\ filtered = <<>>)
             THEN Filtered(Tail(lines), filtered)
             ELSE Filtered(Tail(lines), Append(filtered, line))

\* Lines 194-216: the section a file contributes, <<>> when it contributes none.
Section(file) ==
    LET BlankOrRule == BlankLines \cup {"---"}
    IN  DropTrailing(DropLeading(Filtered(StripSplit(file.text), <<>>), BlankOrRule),
                     BlankOrRule)

RECURSIVE JoinSections(_)
\* "\n\n---\n\n".join(sections)
JoinSections(sections) ==
    IF sections = <<>> THEN <<"">>
    ELSE IF Len(sections) = 1 THEN sections[1]
    ELSE sections[1] \o <<"", "---", "">> \o JoinSections(Tail(sections))

\* merge_markdown_reports(report_files, title)
MergeMarkdownReports(files, title) ==
    LET sections == SelectSeq([i \in DOMAIN files |-> Section(files[i])],
                              LAMBDA s : s # <<>>)
    IN  TitleLines(title) \o JoinSections(sections) \o <<"", "---", FooterLine>>

(***************************************************************************)
(* cli.py: cmd_merge_reports                                               *)
(***************************************************************************)
\* What the command did: whether it raised (main then prints the error and
\* exits 1), the exit status, which merge it chose, and the text it wrote to
\* the output file, printed and posted.
MergeOutcome(raised, exit, is_json, message, file, written, printed, posted) ==
    [raised |-> raised, exit |-> exit, is_json |-> is_json, message |-> message,
     file |-> file, written |-> written, printed |-> printed, posted |-> posted]

\* cmd_merge_reports(args); args.forge tells whether the calls to the forge
\* made for --post-result succeed.
CmdMergeReports(files, args) ==
    LET is_json == ~LoadJsonReport(files[1], 1).raised
        merged == IF is_json THEN MergeJsonReports(files, args.title)
                  ELSE Returned(MergeMarkdownReports(files, args.title))
    IN  IF merged.raised
        THEN MergeOutcome(TRUE, 1, is_json, merged.message, merged.file,
                          None, None, None)
        ELSE LET written == IF args.output_file THEN Some(merged.value) ELSE None
                 printed == IF args.output_file THEN None ELSE Some(merged.value)
             IN  IF args.post_result /\ ~args.forge
                 THEN MergeOutcome(TRUE, 1, is_json, "GitHub error", 0,
                                   written, printed, None)
                 ELSE MergeOutcome(FALSE, 0, is_json, "", 0, written, printed,
                                   IF args.post_result THEN Some(merged.value) ELSE None)

\* The most report files given to one merge.
MaxReports == 2

\* The units the reports of the model speak of.
MergeUnit == NewUnit(1)

\* The reports that shards write: every choice of the two system lists, with
\* no change or with one added unit that was built.
ShardDocs ==
    {ReportDoc(SchemaVersion, req, avail, added, <<>>, <<>>) :
        req \in {<<>>, <<"x86_64-linux">>,
                 <<"x86_64-linux", "aarch64-darwin", "x86_64-linux">>},
        avail \in {<<>>, <<"aarch64-darwin", "x86_64-linux">>},
        added \in {<<>>,
                   <<AddedEntry(MergeUnit,
                                BuildToDict(Some(BuildDerivation(MergeUnit,
                                    Exit(0, "/nix/store/out\n", "")))))>>}}

\* A report of another schema version, and a report with no metadata.
OtherVersionDoc ==
    ReportDoc(SchemaVersion + 1, <<"riscv64-linux">>, <<"riscv64-linux">>, <<>>, <<>>, <<>>)
BareDoc == [version |-> SchemaVersion, changes |-> [added |-> <<>>]]

\* Malformed report files: text that is not JSON, JSON without "version",
\* JSON without "changes".
NotJsonFile == File(<<"{\"version\": 1, \"changes\": ">>, None)
NoVersionFile ==
    JsonFile([metadata |-> [requested_systems |-> <<"riscv64-linux">>,
                            available_systems |-> <<"riscv64-linux">>],
              changes |-> [added |-> <<>>, removed |-> <<>>, modified |-> <<>>]])
NoChangesFile == JsonFile([version |-> SchemaVersion])
MalformedFiles == {NotJsonFile, NoVersionFile, NoChangesFile}

\* A Markdown report file, as --output-format markdown writes it.
MarkdownFile ==
    File(RenderMarkdownFromJson(
             ReportDoc(SchemaVersion, <<"x86_64-linux">>, <<"x86_64-linux">>,
                       <<AddedEntry(MergeUnit, None)>>, <<>>, <<>>), DefaultTitle),
         None)

ReportFiles ==
    {JsonFile(d) : d \in ShardDocs \cup {OtherVersionDoc, BareDoc}}
    \cup MalformedFiles \cup {MarkdownFile}

MergeArgs ==
    [title : {DefaultTitle}, output_file : BOOLEAN, post_result : BOOLEAN,
     forge : BOOLEAN]

InitMerge ==
    /\ DiffIdle
    /\ BuildIdle
    /\ ReportIdle
    /\ ReviewIdle
    /\ report_files \in UNION {[1..n -> ReportFiles] : n \in 1..MaxReports}
    /\ mergeArgs \in {a \in MergeArgs : a.forge \/ a.post_result}
    /\ mergeOut = None

\* The merge-reports command runs.
DoMergeReports ==
    /\ mergeOut = None
    /\ mergeOut' = Some(CmdMergeReports(report_files, mergeArgs))
    /\ UNCHANGED <<report_files, mergeArgs, diffVars, buildVars, reportVars, reviewVars>>

NextMerge == DoMergeReports

SpecMerge == InitMerge /\ [][NextMerge]_vars

\* The merge-reports command has run in JSON mode and every file loaded.
MergedAsJson ==
    /\ mergeOut # None
    /\ mergeOut[1].is_json
    /\ \A i \in DOMAIN report_files : ~LoadJsonReport(report_files[i], i).raised

\* The reports merge_json_reports loaded, in input order.
LoadedReports == [i \in DOMAIN report_files |-> LoadJsonReport(report_files[i], i).value]

\* The metadata of the combined report of some reports.
MetadataOf(datas) == Combined(datas).metadata

\* C4: when merge_json_reports is given report files whose schema versions
\* differ, the merge is an error that names one of the files, and no rendered
\* report is written, printed or posted.
C4_VersionMismatchIsAnError ==
    (/\ MergedAsJson
     /\ \E i, j \in DOMAIN report_files :
            LoadedReports[i].version # LoadedReports[j].version)
    => /\ mergeOut[1].raised
       /\ mergeOut[1].file \in DOMAIN report_files
       /\ mergeOut[1].written = None
       /\ mergeOut[1].printed = None
       /\ mergeOut[1].posted = None

\* C5: when the merge-reports command is given structured report files (no
\* Markdown report among them, at least one report that loads) and one of them,
\* at any position, is malformed,
\* the command raises with a message about that file and writes, prints and
\* posts no merged report.
C5_MalformedInputFailsTheMerge ==
    (/\ mergeOut # None
     /\ \A i \in DOMAIN report_files : report_files[i] # MarkdownFile
     /\ \E i \in DOMAIN report_files : ~LoadJsonReport(report_files[i], i).raised
     /\ \E i \in DOMAIN report_files : report_files[i] \in MalformedFiles)
    => /\ mergeOut[1].raised
       /\ mergeOut[1].file \in DOMAIN report_files
       /\ report_files[mergeOut[1].file] \in MalformedFiles
       /\ mergeOut[1].written = None
       /\ mergeOut[1].printed = None
       /\ mergeOut[1].posted = None

\* The part of C5 the code keeps: a malformed file that is not the first one
\* makes the merge of structured reports raise, with nothing written.
C5_MalformedLaterInputFailsTheMerge ==
    (/\ mergeOut # None
     /\ ~LoadJsonReport(report_files[1], 1).raised
     /\ \E i \in DOMAIN report_files : report_files[i] \in MalformedFiles)
    => /\ mergeOut[1].raised
       /\ report_files[mergeOut[1].file] \in MalformedFiles
       /\ mergeOut[1].written = None
       /\ mergeOut[1].printed = None

\* C6: in the report merge_json_reports renders, requested_systems and
\* available_systems are each the set union of the inputs' lists with no
\* duplicate; the metadata is the same for every permutation and every grouping
\* of the inputs, merging the merged report again changes nothing, and the
\* metadata of a single merged report has the systems of its input.
C6_MetadataIsTheSetUnion ==
    MergedAsJson =>
        LET datas == LoadedReports
            n == Len(datas)
            meta == MetadataOf(datas)
            InputSet(key) ==
                UNION {SeqRange(Get(Get(datas[i], "metadata", <<>>), key, <<>>)) :
                          i \in 1..n}
            NoDuplicate(s) == Cardinality(SeqRange(s)) = Len(s)
        IN  /\ ~mergeOut[1].raised =>
                   \A text \in {mergeOut[1].written, mergeOut[1].printed} \ {None} :
                       text[1] = RenderMarkdownFromJson(Combined(datas), mergeArgs.title)
            /\ SeqRange(meta.requested_systems) = InputSet("requested_systems")
            /\ SeqRange(meta.available_systems) = InputSet("available_systems")
            /\ NoDuplicate(meta.requested_systems)
            /\ NoDuplicate(meta.available_systems)
            /\ \A p \in Perms(1..n) : MetadataOf([i \in 1..n |-> datas[p[i]]]) = meta
            /\ \A k \in 1..(n - 1) :
                   MetadataOf(<<Combined(SubSeq(datas, 1, k)),
                                Combined(SubSeq(datas, k + 1, n))>>) = meta
            /\ MetadataOf(<<Combined(datas)>>) = meta
            /\ MetadataOf(datas \o <<Combined(datas)>>) = meta

\* Two reports whose lists of systems overlap, one of them listing a system
\* twice, have been merged and the merged report has been written.
C6_Witness ==
    /\ MergedAsJson
    /\ ~mergeOut[1].raised
    /\ mergeOut[1].written # None
    /\ Len(report_files) = MaxReports
    /\ LoadedReports[1] # LoadedReports[2]
    /\ \E i \in DOMAIN report_files :
           Len(Get(Get(LoadedReports[i], "metadata", <<>>), "requested_systems", <<>>)) > 2
    /\ Len(MetadataOf(LoadedReports).requested_systems) = 2
    /\ Len(MetadataOf(LoadedReports).available_systems) = 2

(***************************************************************************)
(* merge-reports on shards that report changes in all three lists          *)
(***************************************************************************)
\* The reports of shards with up to two added units, a removed unit and a
\* modified pair, a path possibly in two lists, and a report whose "changes"
\* has only the "added" key.
ConcatDocs ==
    {ReportDoc(SchemaVersion, <<"x86_64-linux">>, <<"x86_64-linux">>, added, removed, modified) :
        added \in {<<>>,
                   <<AddedEntry(NewUnit(1),
                                BuildToDict(Some(BuildDerivation(NewUnit(1),
                                    Exit(0, "/nix/store/out\n", "")))))>>,
                   <<AddedEntry(NewUnit(1), None), AddedEntry(NewUnit(2), None)>>},
        removed \in {<<>>, <<DrvToDict(OldUnit(3))>>},
        modified \in {<<>>, <<ModifiedEntry(OldUnit(2), NewUnit(2), None, None)>>}}
    \cup {[version |-> SchemaVersion, changes |-> [added |-> <<AddedEntry(NewUnit(1), None)>>]]}

InitConcat ==
    /\ DiffIdle
    /\ BuildIdle
    /\ ReportIdle
    /\ ReviewIdle
    /\ report_files \in UNION {[1..n -> {JsonFile(d) : d \in ConcatDocs}] : n \in 1..MaxReports}
    /\ mergeArgs \in {a \in MergeArgs : a.forge /\ ~a.post_result}
    /\ mergeOut = None

NextConcat == DoMergeReports

SpecConcat == InitConcat /\ [][NextConcat]_vars

\* The list of one kind of each input, in input order.
InputLists(key) ==
    [i \in DOMAIN report_files |-> Get(Get(LoadedReports[i], "changes", <<>>), key, <<>>)]

RECURSIVE SumOf(_)
SumOf(ns) == IF ns = <<>> THEN 0 ELSE Head(ns) + SumOf(Tail(ns))

\* How often the inputs report a path, over their three lists.
TimesReported(path) ==
    SumOf([i \in DOMAIN report_files |->
              Cardinality({k \in DOMAIN InputLists("added")[i] :
                              InputLists("added")[i][k].attr_path = path})
              + Cardinality({k \in DOMAIN InputLists("removed")[i] :
                                InputLists("removed")[i][k].attr_path = path})
              + Cardinality({k \in DOMAIN InputLists("modified")[i] :
                                InputLists("modified")[i][k].new.attr_path = path})])

\* How many entry lines of a rendered report are for a path.
TimesRendered(text, path) ==
    Cardinality({k \in DOMAIN text :
                    text[k] \in {"- '" \o path \o "'", "- [ok] '" \o path \o "'",
                                 "- [x] '" \o path \o "' (build failed)"}})

\* C21: the added, removed and modified lists of the report merge_json_reports
\* renders are the inputs' lists concatenated in input order, nothing dropped:
\* the length of each is the sum of the inputs' lengths, and a path is rendered
\* as often as the inputs report it.
C21_ListsAreConcatenated ==
    (MergedAsJson /\ ~mergeOut[1].raised) =>
        \A combined \in {Combined(LoadedReports)} :
            /\ \A key \in {"added", "removed", "modified"} :
                   /\ combined.changes[key] = SeqConcat(InputLists(key))
                   /\ Len(combined.changes[key]) =
                          SumOf([i \in DOMAIN report_files |-> Len(InputLists(key)[i])])
            /\ \A text \in {mergeOut[1].written, mergeOut[1].printed} \ {None} :
                   /\ text[1] = RenderMarkdownFromJson(combined, mergeArgs.title)
                   /\ \A n \in 1..3 :
                          TimesRendered(text[1], NewUnit(n).attr_path)
                              = TimesReported(NewUnit(n).attr_path)

\* Two shards that both report the same added path, one of them with a removed
\* unit and a modified pair as well, have been merged: the path is rendered twice.
C21_Witness ==
    /\ MergedAsJson
    /\ ~mergeOut[1].raised
    /\ Len(report_files) = MaxReports
    /\ \A i \in DOMAIN report_files : InputLists("added")[i] # <<>>
    /\ \E i \in DOMAIN report_files :
           InputLists("removed")[i] # <<>> /\ InputLists("modified")[i] # <<>>
    /\ mergeOut[1].written # None
    /\ TimesRendered(mergeOut[1].written[1], NewUnit(1).attr_path) >= 2

(***************************************************************************)
(* The report pipeline: a comparison is serialized, stored, read back and  *)
(* rendered                                                                *)
(***************************************************************************)
\* The most entries (added, modified and removed together) of a comparison.
MaxEntries == 2

\* The ChangeSets of at most MaxEntries entries.
SmallChangeSets ==
    {ChangesOf(a, m, r) : <<a, m, r>> \in
        {t \in (0..MaxEntries) \X (0..MaxEntries) \X (0..MaxEntries) :
            t[1] + t[2] + t[3] <= MaxEntries}}

\* The BuildResults build_changes returns when the builder does outcomes[i] for
\* the i-th unit to build, listed in submission order (the callers below use
\* them through result_map and failure_count only).
BuildChangesResults(cs, outcomes) ==
    [i \in DOMAIN ToBuild(cs) |-> BuildDerivation(ToBuild(cs)[i], outcomes[i])]

\* The systems arguments the callers pass: requested_systems (None or a list)
\* and available_systems (None or a set).
SystemsChoices ==
    {<<None, None>>,
     <<Some(<<"x86_64-linux">>), Some({"aarch64-darwin", "x86_64-linux"})>>,
     <<Some(<<"x86_64-linux", "aarch64-darwin">>), Some({})>>}

\* The inputs of a report: the comparison, the results of its builds (none
\* with --no-build), the two lists of systems, and what nix-diff does for each
\* modified pair.
ReportInputsOver(tools) ==
    UNION {UNION {
        {[changes |-> cs, results |-> rs, requested_systems |-> sys[1],
          available_systems |-> sys[2], tool |-> tool, title |-> DefaultTitle] :
            sys \in SystemsChoices,
            tool \in [DOMAIN cs.modified -> tools]} :
        rs \in {<<>>} \cup {BuildChangesResults(cs, o) :
                              o \in [DOMAIN ToBuild(cs) -> BuilderOutcomes]}} :
        cs \in SmallChangeSets}

ReportInputs == ReportInputsOver(DiffToolOutcomes)

\* The nix-diff invocations each function of report.py has made.
NoDiffCalls ==
    [generate_json_report |-> 0, generate_markdown_report |-> 0,
     print_console_report |-> 0]

NoTexts == [markdown |-> <<>>, console |-> <<>>, from_json |-> <<>>]

InitReportOver(inputs) ==
    /\ DiffIdle
    /\ BuildIdle
    /\ MergeIdle
    /\ ReviewIdle
    /\ rpIn \in inputs
    /\ rpDoc = None
    /\ rpFile = None
    /\ rpLoaded = None
    /\ rpTexts = NoTexts
    /\ diffCalls = NoDiffCalls

InitReport == InitReportOver(ReportInputs)

\* generate_json_report runs nix-diff once for every modified pair.
DoGenerateJsonReport ==
    /\ rpDoc = None
    /\ rpDoc' = Some(GenerateJsonReport(rpIn.changes, rpIn.results,
                                        rpIn.requested_systems, rpIn.available_systems,
                                        rpIn.tool))
    /\ diffCalls' = [diffCalls EXCEPT !.generate_json_report =
                                          @ + Len(rpIn.changes.modified)]
    /\ UNCHANGED <<rpIn, rpFile, rpLoaded, rpTexts, diffVars, buildVars, mergeVars,
                   reviewVars>>

\* Path(output_file).write_text(json.dumps(json_data, indent=2))
DoStoreReport ==
    /\ rpDoc # None
    /\ rpFile = None
    /\ rpFile' = Some(JsonFile(rpDoc[1]))
    /\ UNCHANGED <<rpIn, rpDoc, rpLoaded, rpTexts, diffCalls, diffVars, buildVars,
                   mergeVars, reviewVars>>

DoLoadJsonReport ==
    /\ rpFile # None
    /\ rpLoaded = None
    /\ rpLoaded' = Some(LoadJsonReport(rpFile[1], 1))
    /\ UNCHANGED <<rpIn, rpDoc, rpFile, rpTexts, diffCalls, diffVars, buildVars,
                   mergeVars, reviewVars>>

\* generate_markdown_report, called at most twice; format_detailed_changes
\* runs nix-diff for every modified pair when there is a change.
DoGenerateMarkdownReport ==
    /\ Len(rpTexts.markdown) < 2
    /\ rpTexts' = [rpTexts EXCEPT !.markdown =
                      Append(@, GenerateMarkdownReport(rpIn.changes, rpIn.results,
                                    rpIn.title, rpIn.requested_systems,
                                    rpIn.available_systems, rpIn.tool))]
    /\ diffCalls' = [diffCalls EXCEPT !.generate_markdown_report =
                                          @ + Len(rpIn.changes.modified)]
    /\ UNCHANGED <<rpIn, rpDoc, rpFile, rpLoaded, diffVars, buildVars, mergeVars,
                   reviewVars>>

\* print_console_report, called at most twice.
DoPrintConsoleReport ==
    /\ Len(rpTexts.console) < 2
    /\ rpTexts' = [rpTexts EXCEPT !.console =
                      Append(@, PrintConsoleReport(rpIn.changes, rpIn.results, rpIn.tool))]
    /\ diffCalls' = [diffCalls EXCEPT !.print_console_report =
                                          @ + Len(rpIn.changes.modified)]
    /\ UNCHANGED <<rpIn, rpDoc, rpFile, rpLoaded, diffVars, buildVars, mergeVars,
                   reviewVars>>

\* _render_markdown_from_json on the loaded report, called at most twice.
DoRenderMarkdownFromJson ==
    /\ rpLoaded # None
    /\ ~rpLoaded[1].raised
    /\ Len(rpTexts.from_json) < 2
    /\ rpTexts' = [rpTexts EXCEPT !.from_json =
                      Append(@, RenderMarkdownFromJson(rpLoaded[1].value, rpIn.title))]
    /\ UNCHANGED <<rpIn, rpDoc, rpFile, rpLoaded, diffCalls, diffVars, buildVars,
                   mergeVars, reviewVars>>

NextReport ==
    \/ DoGenerateJsonReport
    \/ DoStoreReport
    \/ DoLoadJsonReport
    \/ DoGenerateMarkdownReport
    \/ DoPrintConsoleReport
    \/ DoRenderMarkdownFromJson

SpecReport == InitReport /\ [][NextReport]_vars

\* The two ways to a Markdown report: generate_markdown_report on the
\* comparison, and _render_markdown_from_json on the JSON report written and
\* read back.
NextRender ==
    \/ DoGenerateJsonReport
    \/ DoStoreReport
    \/ DoLoadJsonReport
    \/ DoGenerateMarkdownReport
    \/ DoRenderMarkdownFromJson

SpecRender == InitReport /\ [][NextRender]_vars

\* The reports made with a diff tool that may also fail after it has printed
\* on stdout.
FailedAfterOutput ==
    Exit(1, "- old\n+ new\n", "nix-diff: getFileStatus: does not exist\n")

InitDiffTool == InitReportOver(ReportInputsOver(DiffToolOutcomes \cup {FailedAfterOutput}))

SpecDiffTool == InitDiffTool /\ [][NextRender]_vars

\* What can be read back from the loaded report: the unit of a dict, and the
\* BuildResult of a "build" dict, whose fields are taken from the keys of the
\* dict and are None where the dict has no such key.
UnitOfDict(d) == DerivationInfo(d.attr_path, d.drv_path, d.output_type, d.system, d.name)
ResultOfDict(drv, b) ==
    BuildResult(drv, Get(b, "success", None), Get(b, "output_path", None),
                Get(b, "error", None), Get(b, "build_log", None))

\* The loaded report gives back the comparison, the diff texts and the systems.
RoundTripKeepsComparison ==
    LET doc == rpLoaded[1].value
    IN  /\ [i \in DOMAIN doc.changes.added |-> UnitOfDict(doc.changes.added[i])]
               = rpIn.changes.added
        /\ [i \in DOMAIN doc.changes.removed |-> UnitOfDict(doc.changes.removed[i])]
               = rpIn.changes.removed
        /\ [i \in DOMAIN doc.changes.modified |->
                <<UnitOfDict(doc.changes.modified[i].old),
                  UnitOfDict(doc.changes.modified[i].new)>>] = rpIn.changes.modified
        /\ \A i \in DOMAIN doc.changes.modified :
               doc.changes.modified[i].nix_diff = GetNixDiff(rpIn.tool[i])
        /\ doc.metadata.requested_systems =
               (IF rpIn.requested_systems = None THEN <<>> ELSE rpIn.requested_systems[1])
        /\ SeqRange(doc.metadata.available_systems) =
               (IF rpIn.available_systems = None THEN {} ELSE rpIn.available_systems[1])

\* The "build" dicts of the loaded report, with the unit each belongs to.
LoadedBuilds ==
    LET doc == rpLoaded[1].value
    IN  [i \in DOMAIN doc.changes.added |->
            <<UnitOfDict(doc.changes.added[i]), doc.changes.added[i].build>>]
        \o [i \in DOMAIN doc.changes.modified |->
               <<UnitOfDict(doc.changes.modified[i].new), doc.changes.modified[i].build>>]

\* C7: after generate_json_report, the write and load_json_report, the loaded
\* report gives back every field of the original: the units, the diff texts,
\* the systems, and for every BuildResult its success flag, output path, error
\* text and build log.
C7_RoundTripIsLossless ==
    rpLoaded # None =>
        /\ ~rpLoaded[1].raised
        /\ RoundTripKeepsComparison
        /\ \A k \in DOMAIN rpIn.results :
               \E i \in DOMAIN LoadedBuilds :
                   /\ LoadedBuilds[i][2] # None
                   /\ ResultOfDict(LoadedBuilds[i][1], LoadedBuilds[i][2][1])
                          = rpIn.results[k]

\* The part of C7 the code keeps: every field but the build log comes back.
C7_RoundTripKeepsAllButBuildLog ==
    rpLoaded # None =>
        /\ ~rpLoaded[1].raised
        /\ RoundTripKeepsComparison
        /\ \A k \in DOMAIN rpIn.results :
               \E i \in DOMAIN LoadedBuilds :
                   /\ LoadedBuilds[i][2] # None
                   /\ [ResultOfDict(LoadedBuilds[i][1], LoadedBuilds[i][2][1])
                          EXCEPT !.build_log = rpIn.results[k].build_log]
                          = rpIn.results[k]

\* C8: rendering to Markdown or to the console runs no external tool (nix-diff
\* is run by generate_json_report only), and the texts one renderer produces
\* for the same report are all the same text.
C8_RenderingIsPure ==
    /\ diffCalls.generate_markdown_report = 0
    /\ diffCalls.print_console_report = 0
    /\ \A kind \in DOMAIN rpTexts :
           \A i, j \in DOMAIN rpTexts[kind] : rpTexts[kind][i] = rpTexts[kind][j]

\* The part of C8 the code keeps: the renderer used after a merge runs no tool,
\* and with a tool that answers the same for a pair each time, a renderer
\* produces the same text each time.
C8_RenderFromJsonIsPure ==
    /\ diffCalls.generate_json_report <= Len(rpIn.changes.modified)
    /\ \A kind \in DOMAIN rpTexts :
           \A i, j \in DOMAIN rpTexts[kind] : rpTexts[kind][i] = rpTexts[kind][j]

\* The build outcomes the report was given for a path.
OutcomesFor(path) ==
    {rpIn.results[k] : k \in {j \in DOMAIN rpIn.results :
                                 rpIn.results[j].derivation.attr_path = path}}

\* The three renderings of an entry: plain, built, build failed.
PlainLine(path) == "- '" \o path \o "'"
BuiltLine(path) == "- [ok] '" \o path \o "'"
FailedLine(path) == "- [x] '" \o path \o "' (build failed)"

\* A text renders the unit of a path as its outcome asks: plain when there is
\* none, with the check mark and the artifact path when it was built, with the
\* cross mark when its build failed, and in one of the three ways only.
RendersOutcome(text, path) ==
    \A lines \in {SeqRange(text)} :
        /\ OutcomesFor(path) = {} =>
               /\ PlainLine(path) \in lines
               /\ BuiltLine(path) \notin lines
               /\ FailedLine(path) \notin lines
        /\ \A r \in OutcomesFor(path) :
               /\ PlainLine(path) \notin lines
               /\ r.success => /\ BuiltLine(path) \in lines
                                /\ FailedLine(path) \notin lines
                                /\ \E k \in 1..(Len(text) - 1) :
                                       /\ text[k] = BuiltLine(path)
                                       /\ text[k + 1] = "  - Output: '" \o r.output_path[1] \o "'"
               /\ ~r.success => /\ FailedLine(path) \in lines
                                 /\ BuiltLine(path) \notin lines

\* C22: for every added unit and the new side of every modified pair, the
\* JSON report has build = null exactly when no build outcome has the unit's
\* attr_path, and else the outcome of that path; the direct Markdown renderer
\* and the renderer used after a merge show a unit without outcome as a plain
\* entry, which is neither the check-mark entry with the artifact path of a
\* built unit nor the cross-mark "build failed" entry of a failed one.
C22_NotBuiltIsRenderedPlain ==
    /\ rpDoc # None =>
           /\ \A i \in DOMAIN rpIn.changes.added :
                  \A build \in {rpDoc[1].changes.added[i].build} :
                      \A O \in {OutcomesFor(rpIn.changes.added[i].attr_path)} :
                          /\ build = None <=> O = {}
                          /\ \A r \in O : build = BuildToDict(Some(r))
           /\ \A i \in DOMAIN rpIn.changes.modified :
                  \A build \in {rpDoc[1].changes.modified[i].build} :
                      \A O \in {OutcomesFor(rpIn.changes.modified[i][2].attr_path)} :
                          /\ build = None <=> O = {}
                          /\ \A r \in O : build = BuildToDict(Some(r))
    /\ \A kind \in {"markdown", "from_json"} :
           \A k \in DOMAIN rpTexts[kind] :
               \A i \in DOMAIN ToBuild(rpIn.changes) :
                   RendersOutcome(rpTexts[kind][k], ToBuild(rpIn.changes)[i].attr_path)

\* A comparison with an added unit and a modified pair, reported without any
\* build outcome, has been rendered by both Markdown renderers.
C22_Witness ==
    /\ rpIn.results = <<>>
    /\ rpIn.changes.added # <<>>
    /\ rpIn.changes.modified # <<>>
    /\ rpTexts.markdown # <<>>
    /\ rpTexts.from_json # <<>>
    /\ PlainLine(NewUnit(1).attr_path) \in SeqRange(rpTexts.from_json[1])

\* The diff tool failed or is absent: it could not be run, or it did not exit 0.
ToolFailed(outcome) == outcome.kind = "raise" \/ outcome.returncode # 0

\* The failure text of the tool is in none of the report's contents.
NoFailureTextInReport ==
    /\ rpDoc # None =>
           \A i \in DOMAIN rpIn.changes.modified :
               rpDoc[1].changes.modified[i].nix_diff
                   \notin {Some(rpIn.tool[i].stderr), Some(StripText(rpIn.tool[i].stderr)),
                           Some(rpIn.tool[i].message)}
    /\ \A kind \in DOMAIN rpTexts : \A k \in DOMAIN rpTexts[kind] :
           \A i \in DOMAIN rpIn.changes.modified : \A l \in DOMAIN rpTexts[kind][k] :
               ToolFailed(rpIn.tool[i]) =>
                   rpTexts[kind][k][l]
                       \notin {"  " \o StripText(rpIn.tool[i].stderr),
                               "  " \o rpIn.tool[i].message}

\* C23: for every modified pair whose diff tool failed or is absent,
\* generate_json_report still completes and stores a null diff, and the
\* failure text of the tool is nowhere in the report.
C23_ToolFailureYieldsNullDiff ==
    /\ rpDoc = None => ENABLED DoGenerateJsonReport
    /\ rpDoc # None =>
           \A i \in DOMAIN rpIn.changes.modified :
               ToolFailed(rpIn.tool[i]) => rpDoc[1].changes.modified[i].nix_diff = None
    /\ NoFailureTextInReport

\* The part of C23 the code keeps: generate_json_report always completes, the
\* diff is null when the tool could not be run or printed nothing on stdout,
\* and what the tool wrote on stderr is nowhere in the report.
C23_SilentToolYieldsNullDiff ==
    /\ rpDoc = None => ENABLED DoGenerateJsonReport
    /\ rpDoc # None =>
           \A i \in DOMAIN rpIn.changes.modified :
               (rpIn.tool[i].kind = "raise" \/ StripText(rpIn.tool[i].stdout) = "")
                   => rpDoc[1].changes.modified[i].nix_diff = None
    /\ NoFailureTextInReport

\* C28: the two Markdown renderers agree.  For the same comparison, build
\* results, systems and title, and a diff tool that does the same for a
\* modified pair whenever it is run, generate_markdown_report gives the very
\* text _render_markdown_from_json gives for the report generate_json_report
\* makes, also after the report has been written to a file and read back.
C28_MarkdownPathsAgree ==
    /\ rpDoc # None =>
           \A i \in DOMAIN rpTexts.markdown :
               rpTexts.markdown[i] = RenderMarkdownFromJson(rpDoc[1], rpIn.title)
    /\ \A i \in DOMAIN rpTexts.markdown, j \in DOMAIN rpTexts.from_json :
           rpTexts.markdown[i] = rpTexts.from_json[j]

\* Both renderers have run on a comparison with a modified pair that has a
\* diff and a unit whose build failed, with systems in the header.
C28_Witness ==
    /\ rpTexts.markdown # <<>>
    /\ rpTexts.from_json # <<>>
    /\ rpIn.changes.modified # <<>>
    /\ rpIn.requested_systems # None
    /\ \E i \in DOMAIN rpIn.results : ~rpIn.results[i].success
    /\ \E i \in DOMAIN rpDoc[1].changes.modified :
           rpDoc[1].changes.modified[i].nix_diff # None

(***************************************************************************)
(* cli.py: _review_changes, as cmd_pr, cmd_local and cmd_compare call it   *)
(***************************************************************************)
ReviewOutcome(exit, built, rs, console, json_file, md_file, shown, posted, post_attempted, tool_runs) ==
    [exit |-> exit, built |-> built, results |-> rs, console |-> console,
     json_file |-> json_file, md_file |-> md_file, shown |-> shown, posted |-> posted,
     post_attempted |-> post_attempted, tool_runs |-> tool_runs]

\* Lines 105-113 with a failed posting not looked at.
ReviewExit_PostIgnored(failure_count, post_raised) ==
    IF failure_count > 0 THEN 1 ELSE 0

\* Lines 105-113: the value returned once the reports are out.
ReviewExit(failure_count, post_raised) ==
    IF post_raised THEN 1
    ELSE IF failure_count > 0 THEN 1 ELSE 0

\* _review_changes without the early return of lines 61-63.
ReviewChanges_NoEarlyReturn(in) ==
    LET cs == in.changes
        total_changes == Len(cs.added) + Len(cs.modified) + Len(cs.removed)
        rs == IF in.build THEN BuildChangesResults(cs, in.outcomes) ELSE <<>>
        json_wanted == in.output_file /\ in.output_format = "json"
        md_wanted == in.output_file /\ in.output_format # "json"
        markdown ==
            IF in.post_result \/ in.show_result \/ md_wanted
            THEN Some(GenerateMarkdownReport(cs, rs, in.title, Some(in.systems),
                                             in.available_systems, in.tool))
            ELSE None
        has_markdown == markdown # None /\ markdown[1] # <<"">>
        post_attempted == has_markdown /\ in.post_result /\ in.callback # "none"
        post_raised == post_attempted /\ in.callback = "raises"
    IN  IF total_changes < 0
        THEN ReviewOutcome(0, <<>>, <<>>, None, None, None, None, None, FALSE, 0)
        ELSE ReviewOutcome(
                 ReviewExit(FailureCount(rs), post_raised),
                 IF in.build THEN ToBuild(cs) ELSE <<>>,
                 rs,
                 Some(PrintConsoleReport(cs, rs, in.tool)),
                 IF json_wanted
                 THEN Some(JsonFile(GenerateJsonReport(cs, rs, Some(in.systems),
                                                       in.available_systems, in.tool)))
                 ELSE None,
                 IF has_markdown /\ md_wanted THEN markdown ELSE None,
                 IF has_markdown /\ in.show_result THEN markdown ELSE None,
                 IF post_attempted /\ ~post_raised THEN markdown ELSE None,
                 post_attempted,
                 Len(cs.modified) * (1 + (IF json_wanted THEN 1 ELSE 0)
                                       + (IF markdown # None THEN 1 ELSE 0)))

\* _review_changes.  in.changes is what compare_outputs returned, in.outcomes
\* what the builder does for each unit to build, in.tool what nix-diff does for
\* each modified pair, in.callback what post_callback is: "none", or a call
\* that is "ok" or that "raises".
ReviewChanges(in) ==
    LET cs == in.changes
        total_changes == Len(cs.added) + Len(cs.modified) + Len(cs.removed)
        rs == IF in.build THEN BuildChangesResults(cs, in.outcomes) ELSE <<>>
        json_wanted == in.output_file /\ in.output_format = "json"
        md_wanted == in.output_file /\ in.output_format # "json"
        markdown ==
            IF in.post_result \/ in.show_result \/ md_wanted
            THEN Some(GenerateMarkdownReport(cs, rs, in.title, Some(in.systems),
                                             in.available_systems, in.tool))
            ELSE None
        has_markdown == markdown # None /\ markdown[1] # <<"">>
        post_attempted == has_markdown /\ in.post_result /\ in.callback # "none"
        post_raised == post_attempted /\ in.callback = "raises"
    IN  IF total_changes = 0
        THEN ReviewOutcome(0, <<>>, <<>>, None, None, None, None, None, FALSE, 0)
        ELSE ReviewOutcome(
                 ReviewExit(FailureCount(rs), post_raised),
                 IF in.build THEN ToBuild(cs) ELSE <<>>,
                 rs,
                 Some(PrintConsoleReport(cs, rs, in.tool)),
                 IF json_wanted
                 THEN Some(JsonFile(GenerateJsonReport(cs, rs, Some(in.systems),
                                                       in.available_systems, in.tool)))
                 ELSE None,
                 IF has_markdown /\ md_wanted THEN markdown ELSE None,
                 IF has_markdown /\ in.show_result THEN markdown ELSE None,
                 IF post_attempted /\ ~post_raised THEN markdown ELSE None,
                 post_attempted,
                 Len(cs.modified) * (1 + (IF json_wanted THEN 1 ELSE 0)
                                       + (IF markdown # None THEN 1 ELSE 0)))

\* The arguments of the three drivers: only `pr` has --output-file,
\* --output-format, --show-result and --post-result, and only cmd_pr passes
\* available_systems, a title and a post_callback.
DriverArgs ==
    {[driver |-> "pr", build |-> b, output_file |-> out[1], output_format |-> out[2],
      show_result |-> show, post_result |-> post[1], callback |-> post[2],
      title |-> PrTitle, systems |-> <<"x86_64-linux">>,
      available_systems |-> Some({"x86_64-linux"})] :
        b \in BOOLEAN, show \in BOOLEAN,
        out \in {<<FALSE, "md">>, <<TRUE, "md">>, <<TRUE, "json">>},
        post \in {<<FALSE, "ok">>, <<TRUE, "ok">>, <<TRUE, "raises">>}}
    \cup
    {[driver |-> d, build |-> b, output_file |-> FALSE, output_format |-> "md",
      show_result |-> FALSE, post_result |-> FALSE, callback |-> "none",
      title |-> DefaultTitle, systems |-> <<"x86_64-linux">>,
      available_systems |-> None] :
        d \in {"local", "compare"}, b \in BOOLEAN}

\* A record with the fields of both.
Merged(r1, r2) ==
    [k \in DOMAIN r1 \cup DOMAIN r2 |-> IF k \in DOMAIN r1 THEN r1[k] ELSE r2[k]]

InitReview ==
    /\ DiffIdle
    /\ BuildIdle
    /\ ReportIdle
    /\ MergeIdle
    /\ \E args \in DriverArgs : \E cs \in SmallChangeSets :
       \E outcomes \in [(IF args.build THEN DOMAIN ToBuild(cs) ELSE {}) -> BuilderOutcomes] :
       \E tool \in [DOMAIN cs.modified -> DiffToolOutcomes] :
           rvIn = Merged(args, [changes |-> cs, outcomes |-> outcomes, tool |-> tool])
    /\ rvOut = None
    /\ wt = <<>>

\* The driver calls _review_changes.
DoReviewChanges ==
    /\ rvOut = None
    /\ rvOut' = Some(ReviewChanges(rvIn))
    /\ UNCHANGED <<rvIn, wt, diffVars, buildVars, reportVars, mergeVars>>

NextReview == DoReviewChanges

SpecReview == InitReview /\ [][NextReview]_vars

\* A build of the review failed: the builder did not exit 0 for some unit.
ReviewBuildFailed ==
    \E i \in DOMAIN rvIn.outcomes :
        ~(rvIn.outcomes[i].kind = "exit" /\ rvIn.outcomes[i].returncode = 0)

\* C10: _review_changes returns 0 or 1; it returns 0 exactly when there were no
\* changes, or no build failed and the posting, if one was requested, was made
\* and did not fail; it returns 1 exactly when a build failed or the posting
\* failed.
C10_ExitCode ==
    rvOut # None =>
        LET exit == rvOut[1].exit
            posting_failed == rvOut[1].post_attempted /\ rvIn.callback = "raises"
        IN  /\ exit \in {0, 1}
            /\ exit = 0 <=>
                   \/ ~HasChanges(rvIn.changes)
                   \/ /\ ~ReviewBuildFailed
                      /\ rvIn.post_result => rvOut[1].posted # None
            /\ exit = 1 <=> (ReviewBuildFailed \/ posting_failed)
            /\ rvOut[1].post_attempted => HasChanges(rvIn.changes)

\* Every build of a review succeeded and the posting of its report failed.
C10_Witness ==
    /\ rvOut # None
    /\ rvOut[1].exit = 1
    /\ rvOut[1].built # <<>>
    /\ ~ReviewBuildFailed
    /\ rvOut[1].post_attempted
    /\ rvOut[1].posted = None

\* C29: when the comparison finds no changes, _review_changes returns 0 and has
\* run no build, written no JSON and no Markdown file, shown and posted
\* nothing and run no diff, whatever the build, output and post flags are.
C29_NoChangesNoEffects ==
    (rvOut # None /\ ~HasChanges(rvIn.changes)) =>
        /\ rvOut[1].exit = 0
        /\ rvOut[1].built = <<>>
        /\ rvOut[1].results = <<>>
        /\ rvOut[1].json_file = None
        /\ rvOut[1].md_file = None
        /\ rvOut[1].shown = None
        /\ rvOut[1].posted = None
        /\ ~rvOut[1].post_attempted
        /\ rvOut[1].tool_runs = 0

\* A pr review asked to build, to write a file, to show and to post has found
\* no changes and returned.
C29_Witness ==
    /\ rvOut # None
    /\ ~HasChanges(rvIn.changes)
    /\ rvIn.build
    /\ rvIn.output_file
    /\ rvIn.show_result
    /\ rvIn.post_result

(***************************************************************************)
(* utils.py: GitWorktree, as cmd_local and cmd_compare use it              *)
(***************************************************************************)
\* The GitWorktree objects of a driver, in the order of its with-statements:
\* cmd_local checks out the base, cmd_compare the base and inside it the target.
WorktreesOf(driver) == IF driver = "local" THEN <<"base">> ELSE <<"base", "head">>
Worktrees == {"base", "head"}

\* What git does: `git worktree add` exits 0 ("ok") or not ("fails") for a
\* ref, and `git worktree remove --force` removes the directory ("removes") or
\* leaves it where it is ("fails").
GitScripts ==
    [add : [Worktrees -> {"ok", "fails"}], remove : [Worktrees -> {"removes", "fails"}]]

\* wt.exists are the temporary directories on disk, named after the
\* GitWorktree that made them; wt.entered are the with-statements the driver
\* is inside of, outermost first; wt.raised is the exception in flight.
InitWorktree ==
    /\ DiffIdle
    /\ BuildIdle
    /\ ReportIdle
    /\ MergeIdle
    /\ rvIn = <<>>
    /\ rvOut = None
    /\ \E driver \in {"local", "compare"}, git \in GitScripts, body \in {"returns", "raises"} :
           wt = [driver |-> driver, git |-> git, body |-> body, pc |-> "enter",
                 worktree_path |-> [w \in Worktrees |-> None], entered |-> <<>>,
                 exists |-> {}, created |-> <<>>, removed |-> <<>>, raised |-> None]

\* The position after a with-statement has been left, or could not be entered.
Unwind(entered) == IF entered = <<>> THEN "done" ELSE "exit"

\* GitWorktree.__enter__ of the next with-statement: mkdtemp, then `git
\* worktree add` with check=True.  When that raises, the with-statement has not
\* been entered and its __exit__ is not run.
EnterWorktree ==
    /\ wt # <<>>
    /\ wt.pc = "enter"
    /\ \E w \in {WorktreesOf(wt.driver)[Len(wt.entered) + 1]} :
       \E made \in {[wt EXCEPT !.worktree_path[w] = Some(w), !.exists = @ \cup {w},
                               !.created = Append(@, w)]} :
          wt' = IF wt.git.add[w] = "ok"
                THEN [made EXCEPT !.entered = Append(@, w),
                                  !.pc = IF Len(wt.entered) + 1 = Len(WorktreesOf(wt.driver))
                                         THEN "body" ELSE "enter"]
                ELSE [made EXCEPT !.raised = Some("CommandError"),
                                  !.pc = Unwind(wt.entered)]
    /\ UNCHANGED <<rvIn, rvOut, diffVars, buildVars, reportVars, mergeVars>>

\* The body of the innermost with-statement: _review_changes returns or raises.
RunBody ==
    /\ wt # <<>>
    /\ wt.pc = "body"
    /\ wt' = [wt EXCEPT !.pc = "exit",
                        !.raised = IF wt.body = "raises" THEN Some("Exception") ELSE None]
    /\ UNCHANGED <<rvIn, rvOut, diffVars, buildVars, reportVars, mergeVars>>

\* The directories on disk after GitWorktree.__exit__ of w: `git worktree
\* remove --force` with check=False, then shutil.rmtree if the directory is
\* still there.
AfterExit(exists, w, outcome) ==
    LET afterGit == IF outcome = "removes" THEN exists \ {w} ELSE exists
    IN  IF w \in afterGit THEN afterGit \ {w} ELSE afterGit

\* GitWorktree.__exit__ of the innermost with-statement the driver is in; it
\* returns None, so an exception in flight goes on to the next one.
ExitWorktree ==
    /\ wt # <<>>
    /\ wt.pc = "exit"
    /\ \E w \in {wt.entered[Len(wt.entered)]} :
       \E rest \in {SubSeq(wt.entered, 1, Len(wt.entered) - 1)} :
          wt' = [wt EXCEPT !.exists = IF wt.worktree_path[w] # None
                                      THEN AfterExit(@, w, wt.git.remove[w]) ELSE @,
                           !.removed = Append(@, w),
                           !.entered = rest,
                           !.pc = Unwind(rest)]
    /\ UNCHANGED <<rvIn, rvOut, diffVars, buildVars, reportVars, mergeVars>>

NextWorktree == EnterWorktree \/ RunBody \/ ExitWorktree

SpecWorktree == InitWorktree /\ [][NextWorktree]_vars

\* C30: once control has left the with-statements of a driver, every
\* temporary directory GitWorktree.__enter__ made is gone, whether the body
\* returned or raised and whether `git worktree add` or `git worktree remove`
\* failed; and of two nested worktrees the inner directory is removed first.
C30_EveryTempDirIsRemoved ==
    (wt # <<>> /\ wt.pc = "done") =>
        /\ wt.exists = {}
        /\ Len(wt.removed) = 2 => wt.removed = <<"head", "base">>

\* What holds of the code: the directory of every with-statement that was
\* entered is gone once control has left it, the inner one first.
C30_EnteredWorktreesAreRemoved ==
    wt # <<>> =>
        /\ \A w \in wt.exists : w \in SeqRange(wt.entered) \/ wt.git.add[w] = "fails"
        /\ Len(wt.removed) = 2 => wt.removed = <<"head", "base">>
        /\ wt.pc = "done" => wt.entered = <<>>

====
